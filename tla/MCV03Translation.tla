--------------------------- MODULE MCV03Translation ---------------------------
(* Parts of the three kinds with the members clients send them with, a file*)
(* without content, and a kind v0.3 does not have; up to three events.     *)
EXTENDS V03Translation

Part(kind, members) == [kind |-> kind, members |-> members]

ClientParts ==
  {Part("text", {"text"}), Part("text", {"text", "metadata"}),
   Part("file", {"uri", "mimeType"}), Part("file", {"bytes", "name", "metadata"}),
   Part("file", {"name"}), Part("data", {"data", "metadata"}), Part("audio", {"samples"})}

ClientV1Parts == {Part("none", {"text"}), Part("none", {"url", "mediaType"})}
=============================================================================
