------------------------- MODULE V03TranslationProofs -------------------------
(***************************************************************************)
(* Proofs about the v0.3 layer, for any parts and any number of events.    *)
(***************************************************************************)
EXTENDS V03Translation, TLAPS

-----------------------------------------------------------------------------
(* The two translations of a part are inverse where there is content.      *)

LEMMA NamesToV1 ==
    ASSUME NEW members
    PROVE  /\ FileToV1(members) \subseteq {"url", "raw", "mediaType", "filename"}
           /\ "url" \in FileToV1(members) <=> "uri" \in members
           /\ "raw" \in FileToV1(members) <=> "bytes" \in members
           /\ "mediaType" \in FileToV1(members) <=> "mimeType" \in members
           /\ "filename" \in FileToV1(members) <=> "name" \in members
  <1>1. \A x \in Named : x[1] \in members => x[2] \in FileToV1(members)
    BY DEF FileToV1
  <1>2. /\ "uri" \in members => "url" \in FileToV1(members)
        /\ "bytes" \in members => "raw" \in FileToV1(members)
        /\ "mimeType" \in members => "mediaType" \in FileToV1(members)
        /\ "name" \in members => "filename" \in FileToV1(members)
    BY <1>1 DEF Named
  <1>3. ASSUME NEW v \in FileToV1(members)
        PROVE  \/ v = "url" /\ "uri" \in members
               \/ v = "raw" /\ "bytes" \in members
               \/ v = "mediaType" /\ "mimeType" \in members
               \/ v = "filename" /\ "name" \in members
    <2>1. PICK x \in Named : x[1] \in members /\ v = x[2]
      BY DEF FileToV1
    <2> QED BY <2>1 DEF Named
  <1> QED BY <1>2, <1>3

LEMMA NamesToV03 ==
    ASSUME NEW members
    PROVE  /\ FileToV03(members) \subseteq {"uri", "bytes", "mimeType", "name"}
           /\ "uri" \in FileToV03(members) <=> "url" \in members
           /\ "bytes" \in FileToV03(members) <=> "raw" \in members
           /\ "mimeType" \in FileToV03(members) <=> "mediaType" \in members
           /\ "name" \in FileToV03(members) <=> "filename" \in members
  <1>1. \A x \in Named : x[2] \in members => x[1] \in FileToV03(members)
    BY DEF FileToV03
  <1>2. /\ "url" \in members => "uri" \in FileToV03(members)
        /\ "raw" \in members => "bytes" \in FileToV03(members)
        /\ "mediaType" \in members => "mimeType" \in FileToV03(members)
        /\ "filename" \in members => "name" \in FileToV03(members)
    BY <1>1 DEF Named
  <1>3. ASSUME NEW v \in FileToV03(members)
        PROVE  \/ v = "uri" /\ "url" \in members
               \/ v = "bytes" /\ "raw" \in members
               \/ v = "mimeType" /\ "mediaType" \in members
               \/ v = "name" /\ "filename" \in members
    <2>1. PICK x \in Named : x[2] \in members /\ v = x[1]
      BY DEF FileToV03
    <2> QED BY <2>1 DEF Named
  <1> QED BY <1>2, <1>3

\* What the assumption says of one part.
LEMMA PartType ==
    ASSUME NEW p \in Parts
    PROVE  /\ p = [kind |-> p.kind, members |-> p.members]
           /\ p.kind \in {"text", "file", "data"} => p.members \subseteq Members(p.kind)
  BY PartsAssumption

LEMMA PartComesBack ==
    ASSUME NEW p \in Parts, HasContent(p)
    PROVE  PartToV03(PartToV1(p)) = p
  <1>1. p = [kind |-> p.kind, members |-> p.members]
    BY PartType
  <1>2. CASE p.kind = "text"
    <2>1. p.members \subseteq {"text", "metadata"} /\ "text" \in p.members
      BY <1>2, PartType DEF HasContent, Members
    <2>2. PartToV1(p) = [kind |-> "none", members |-> Metadata(p) \union (p.members \intersect {"text"})]
      BY <1>2 DEF PartToV1
    <2>3. PartToV03(PartToV1(p)) = [kind |-> "text", members |-> {"text"} \union Metadata(PartToV1(p))]
      BY <2>1, <2>2 DEF PartToV03
    <2>4. {"text"} \union Metadata(PartToV1(p)) = p.members
      BY <2>1, <2>2 DEF Metadata
    <2> QED BY <1>1, <1>2, <2>3, <2>4
  <1>3. CASE p.kind = "file"
    <2> DEFINE there == PartToV1(p)
    <2>1. /\ p.members \subseteq {"uri", "bytes", "mimeType", "name", "metadata"}
          /\ "uri" \in p.members \/ "bytes" \in p.members
      BY <1>3, PartType DEF HasContent, Members
    <2>2. there = [kind |-> "none", members |-> Metadata(p) \union FileToV1(p.members)]
      BY <1>3 DEF PartToV1
    <2>3. /\ "text" \notin there.members
          /\ "url" \in there.members <=> "uri" \in p.members
          /\ "raw" \in there.members <=> "bytes" \in p.members
          /\ "mediaType" \in there.members <=> "mimeType" \in p.members
          /\ "filename" \in there.members <=> "name" \in p.members
          /\ "metadata" \in there.members <=> "metadata" \in p.members
      BY <2>2, NamesToV1 DEF Metadata
    <2>4. there.members \intersect {"url", "raw"} # {}
      BY <2>1, <2>3
    <2>5. PartToV03(there) = [kind |-> "file", members |-> FileToV03(there.members) \union Metadata(there)]
      BY <2>3, <2>4 DEF PartToV03
    <2>6. FileToV03(there.members) \union Metadata(there) = p.members
      BY <2>1, <2>3, NamesToV03 DEF Metadata
    <2> QED BY <1>1, <1>3, <2>5, <2>6
  <1>4. CASE p.kind = "data"
    <2>1. p.members \subseteq {"data", "metadata"} /\ "data" \in p.members
      BY <1>4, PartType DEF HasContent, Members
    <2>2. PartToV1(p) = [kind |-> "none", members |-> Metadata(p) \union (p.members \intersect {"data"})]
      BY <1>4 DEF PartToV1
    <2>3. PartToV1(p).members \intersect {"text", "url", "raw"} = {}
      BY <2>2 DEF Metadata
    <2>4. "data" \in PartToV1(p).members
      BY <2>1, <2>2
    <2>5. PartToV03(PartToV1(p)) = [kind |-> "data", members |-> {"data"} \union Metadata(PartToV1(p))]
      BY <2>3, <2>4 DEF PartToV03
    <2>6. {"data"} \union Metadata(PartToV1(p)) = p.members
      BY <2>1, <2>2 DEF Metadata
    <2> QED BY <1>1, <1>4, <2>5, <2>6
  <1> QED BY <1>2, <1>3, <1>4 DEF HasContent

\* A message that was translated for the handler is translated back whole.
LEMMA MessageComesBack ==
    ASSUME NEW m \in Messages, m.kind, HasContent(m.part)
    PROVE  MessageToV03(MessageToV1(m)) = m
  <1>1. m = [kind |-> TRUE, role |-> "user", part |-> m.part] /\ m.part \in Parts
    BY DEF Messages
  <1>2. MessageToV1(m).part = PartToV1(m.part)
    BY DEF MessageToV1
  <1> QED BY <1>1, <1>2, PartComesBack DEF MessageToV03

-----------------------------------------------------------------------------
(* What is on its way.  The handler's results quote the message it got; the*)
(* client's are translated exactly if the request was a v0.3 one, and not a*)
(* resubscription.                                                         *)

Forward ==
  IF Intercepts(request)
    THEN [method |-> MethodToV1(request.method), message |-> MessageToV1(request.message)]
    ELSE [method |-> request.method, message |-> request.message]

Given(i, e) ==
  [n |-> i, error |-> e, dialect |-> IF e THEN "any" ELSE "1.0",
   quotes |-> IF e THEN NoMessage ELSE forwarded.message]

Raw == {Given(i, e) : i \in Nat \ {0}, e \in BOOLEAN}
Translated == Intercepts(request) /\ request.method # "tasks/resubscribe"
Delivered == IF Translated THEN {ResultToV03(r) : r \in Raw} ELSE Raw
Lines(R) == {Data(r) : r \in R} \union {Document(r) : r \in R} \union {Blank}

TypeInv ==
  /\ request \in Requests
  /\ pc \in {"arrived", "inner", "answered"}
  /\ pc = "arrived" => /\ translating = FALSE /\ line = NoLine
                       /\ sent = <<>> /\ buffer = <<>> /\ wire = <<>> /\ got = <<>>
  /\ pc # "arrived" => translating = Intercepts(request) /\ forwarded = Forward
  /\ translating \in BOOLEAN
  /\ sent \in Seq(Raw) /\ buffer \in Seq(Lines(Raw)) /\ wire \in Seq(Lines(Delivered))
  /\ got \in Seq(Delivered) /\ line \in Delivered \union {NoLine}
  /\ \A i \in DOMAIN buffer :
       /\ buffer[i].type = "data" => Streams
       /\ buffer[i].type = "json" => buffer[i].result.error \/ forwarded.method = "SendMessage"
  /\ translating /\ pc = "inner" => wire = <<>>

LEMMA LineKinds ==
    ASSUME NEW R, NEW l \in Lines(R)
    PROVE  /\ l.type \in {"data", "json", "blank"}
           /\ l.type = "data" => l = Data(l.result) /\ l.result \in R
           /\ l.type = "json" => l = Document(l.result) /\ l.result \in R
           /\ l.type = "blank" => l = Blank
  <1>1. CASE l \in {Data(r) : r \in R}
    BY <1>1 DEF Data
  <1>2. CASE l \in {Document(r) : r \in R}
    BY <1>2 DEF Document
  <1>3. CASE l = Blank
    BY <1>3 DEF Blank
  <1> QED BY <1>1, <1>2, <1>3 DEF Lines

LEMMA RawFields ==
    ASSUME NEW r \in Raw
    PROVE  /\ r.n \in Nat \ {0} /\ r.error \in BOOLEAN
           /\ ~r.error => r.dialect = "1.0" /\ r.quotes = forwarded.message
           /\ ResultToV03(r).n = r.n /\ ResultToV03(r).error = r.error
           /\ r.error => ResultToV03(r) = r
           /\ ~r.error => /\ ResultToV03(r).dialect = "0.3"
                          /\ ResultToV03(r).quotes = MessageToV03(forwarded.message)
  <1>1. PICK i \in Nat \ {0}, e \in BOOLEAN : r = Given(i, e)
    BY DEF Raw
  <1>2. CASE e = TRUE
    BY <1>1, <1>2 DEF Given, ResultToV03
  <1>3. CASE e = FALSE
    BY <1>1, <1>3 DEF Given, ResultToV03
  <1> QED BY <1>2, <1>3

LEMMA ResultType ==
    ASSUME sent \in Seq(Raw), NEW e \in BOOLEAN
    PROVE  Result(e) \in Raw /\ Result(e).n = Len(sent) + 1 /\ Result(e).error = e
  <1>1. Len(sent) + 1 \in Nat \ {0}
    OBVIOUS
  <1>2. Result(e) = Given(Len(sent) + 1, e)
    BY DEF Result, Given
  <1> QED BY <1>1, <1>2 DEF Raw, Given

\* The lines the handler writes for a result of its own.
LEMMA WrittenLines ==
    ASSUME sent \in Seq(Raw), NEW e \in BOOLEAN
    PROVE  /\ <<Data(Result(e)), Blank>> \in Seq(Lines(Raw))
           /\ <<Document(Result(e))>> \in Seq(Lines(Raw))
  <1>1. Result(e) \in Raw
    BY ResultType
  <1>2. Data(Result(e)) \in Lines(Raw) /\ Document(Result(e)) \in Lines(Raw) /\ Blank \in Lines(Raw)
    BY <1>1 DEF Lines
  <1> QED BY <1>2

\* Once the request has been forwarded, what may be on its way is settled.
LEMMA Settled ==
    ASSUME UNCHANGED <<request, forwarded>>
    PROVE  /\ Raw' = Raw /\ Delivered' = Delivered
           /\ Streams' = Streams /\ Forward' = Forward
           /\ Intercepts(request)' = Intercepts(request)
  <1>1. Raw' = Raw
    BY DEF Raw, Given
  <1>2. Intercepts(request)' = Intercepts(request)
    BY DEF Intercepts
  <1>3. Delivered' = Delivered
    BY <1>1, <1>2 DEF Delivered, Translated
  <1>4. Streams' = Streams
    BY DEF Streams
  <1>5. Forward' = Forward
    BY <1>2 DEF Forward
  <1> QED BY <1>1, <1>2, <1>3, <1>4, <1>5

\* What the handler's method says of the v0.3 method it was asked in.
LEMMA MethodsApart ==
    ASSUME Intercepts(request), forwarded = Forward
    PROVE  /\ forwarded.method = MethodToV1(request.method)
           /\ request.method \in V03Methods
           /\ IsStreaming(request.method) => Translated /\ forwarded.method # "SendMessage"
           /\ Streams /\ ~IsStreaming(request.method) => request.method = "tasks/resubscribe"
           /\ forwarded.method = "SendMessage" => Translated
  <1>1. forwarded.method = MethodToV1(request.method) /\ request.method \in V03Methods
    BY DEF Forward, Intercepts, IsV03Method
  <1>2. IsStreaming(request.method) => Translated /\ forwarded.method # "SendMessage"
    BY <1>1 DEF IsStreaming, Translated, MethodToV1
  <1>3. Streams /\ ~IsStreaming(request.method) => request.method = "tasks/resubscribe"
    BY <1>1 DEF Streams, IsStreaming, MethodToV1, V03Methods
  <1>4. forwarded.method = "SendMessage" => Translated
    BY <1>1 DEF Translated, MethodToV1, V03Methods
  <1> QED BY <1>1, <1>2, <1>3, <1>4

\* What the client is sent of a translated answer is what it should get.
LEMMA TranslationDelivers ==
    ASSUME TypeInv, translating, pc = "inner"
    PROVE  /\ IsStreaming(request.method) => TranslateSseContent(buffer) \in Seq(Lines(Delivered))
           /\ ~(IsStreaming(request.method) /\ HasEvents)
                => TranslateJsonResponse(buffer) \in Seq(Lines(Delivered))
  <1>1. /\ Intercepts(request) /\ forwarded = Forward
        /\ buffer \in Seq(Lines(Raw))
    BY DEF TypeInv
  <1>2. Translated => Delivered = {ResultToV03(r) : r \in Raw}
    BY DEF Delivered
  <1>3. ~Translated => Delivered = Raw
    BY DEF Delivered
  <1>4. ASSUME NEW i \in DOMAIN buffer, buffer[i].type = "data"
        PROVE  /\ buffer[i] = Data(buffer[i].result) /\ buffer[i].result \in Raw /\ Streams
    BY <1>1, <1>4, LineKinds DEF TypeInv
  <1>5. ASSUME NEW i \in DOMAIN buffer, buffer[i].type = "json"
        PROVE  Document(ResultToV03(buffer[i].result)) \in Lines(Delivered)
    <2>1. buffer[i].result \in Raw
      BY <1>1, <1>5, LineKinds
    <2>2. CASE Translated
      BY <1>2, <2>1, <2>2 DEF Lines
    <2>3. CASE ~Translated
      <3>1. buffer[i].result.error
        BY <1>1, <1>5, <2>3, MethodsApart DEF TypeInv
      <3>2. ResultToV03(buffer[i].result) = buffer[i].result
        BY <2>1, <3>1, RawFields
      <3> QED BY <1>3, <2>1, <2>3, <3>2 DEF Lines
    <2> QED BY <2>2, <2>3
  <1>6. ASSUME NEW i \in DOMAIN buffer, buffer[i].type = "blank"
        PROVE  buffer[i] \in Lines(Delivered)
    <2>1. buffer[i] = Blank
      BY <1>1, <1>6, LineKinds
    <2> QED BY <2>1 DEF Lines
  <1>7. \A i \in DOMAIN buffer : buffer[i].type \in {"data", "json", "blank"}
    BY <1>1, LineKinds
  <1>8. ASSUME IsStreaming(request.method)
        PROVE  TranslateSseContent(buffer) \in Seq(Lines(Delivered))
    <2> DEFINE T(i) == IF buffer[i].type = "data" THEN Data(ResultToV03(buffer[i].result)) ELSE buffer[i]
    <2>1. Translated /\ forwarded.method # "SendMessage"
      BY <1>1, <1>8, MethodsApart
    <2>2. ASSUME NEW i \in DOMAIN buffer
          PROVE  T(i) \in Lines(Delivered)
      <3>1. CASE buffer[i].type = "data"
        BY <1>2, <1>4, <2>1, <3>1 DEF Lines
      <3>2. CASE buffer[i].type = "json"
        <4>1. buffer[i].result \in Raw /\ buffer[i] = Document(buffer[i].result)
          BY <1>1, <3>2, LineKinds
        <4>2. buffer[i].result.error
          BY <2>1, <3>2 DEF TypeInv
        <4>3. ResultToV03(buffer[i].result) = buffer[i].result
          BY <4>1, <4>2, RawFields
        <4>4. T(i) = Document(ResultToV03(buffer[i].result))
          BY <3>2, <4>1, <4>3
        <4> QED BY <1>5, <3>2, <4>4
      <3>3. CASE buffer[i].type = "blank"
        BY <1>6, <3>3
      <3> QED BY <1>7, <3>1, <3>2, <3>3
    <2>3. [i \in DOMAIN buffer |-> T(i)] \in Seq(Lines(Delivered))
      BY <1>1, <2>2
    <2>4. Blank \in Lines(Delivered)
      BY DEF Lines
    <2> HIDE DEF T
    <2>5. Append([i \in DOMAIN buffer |-> T(i)], Blank) \in Seq(Lines(Delivered))
      BY <2>3, <2>4
    <2> QED BY <2>5 DEF TranslateSseContent, T
  <1>9. ASSUME ~(IsStreaming(request.method) /\ HasEvents)
        PROVE  TranslateJsonResponse(buffer) \in Seq(Lines(Delivered))
    <2> DEFINE T(i) == IF buffer[i].type = "json" THEN Document(ResultToV03(buffer[i].result)) ELSE buffer[i]
    <2>1. ASSUME NEW i \in DOMAIN buffer
          PROVE  T(i) \in Lines(Delivered)
      <3>1. CASE buffer[i].type = "data"
        <4>1. ~IsStreaming(request.method) /\ Streams
          BY <1>4, <1>9, <3>1 DEF HasEvents
        <4>2. ~Translated
          BY <1>1, <4>1, MethodsApart DEF Translated
        <4> QED BY <1>3, <1>4, <3>1, <4>2 DEF Lines
      <3>2. CASE buffer[i].type = "json"
        BY <1>5, <3>2
      <3>3. CASE buffer[i].type = "blank"
        BY <1>6, <3>3
      <3> QED BY <1>7, <3>1, <3>2, <3>3
    <2>2. [i \in DOMAIN buffer |-> T(i)] \in Seq(Lines(Delivered))
      BY <1>1, <2>1
    <2> QED BY <2>2 DEF TranslateJsonResponse
  <1> QED BY <1>8, <1>9

-----------------------------------------------------------------------------
(* The invariant holds initially, and every step keeps it.                 *)

LEMMA TypeInvInit == Init => TypeInv
  <1> SUFFICES ASSUME Init PROVE TypeInv
    OBVIOUS
  <1>1. /\ request \in Requests /\ pc = "arrived" /\ translating = FALSE
        /\ sent = <<>> /\ buffer = <<>> /\ wire = <<>> /\ got = <<>> /\ line = NoLine
    BY DEF Init
  <1>2. /\ sent \in Seq(Raw) /\ buffer \in Seq(Lines(Raw)) /\ wire \in Seq(Lines(Delivered))
        /\ got \in Seq(Delivered)
    BY <1>1
  <1>3. DOMAIN buffer = {}
    BY <1>1
  <1> QED BY <1>1, <1>2, <1>3 DEF TypeInv

LEMMA InvokeKeeps ==
    ASSUME TypeInv, InvokeNext \/ InvokeTranslated
    PROVE  TypeInv'
  <1>1. /\ pc = "arrived" /\ pc' = "inner"
        /\ UNCHANGED <<request, sent, buffer, wire, line, got>>
    BY DEF InvokeNext, InvokeTranslated, client
  <1>2. /\ sent' = <<>> /\ buffer' = <<>> /\ wire' = <<>> /\ got' = <<>> /\ line' = NoLine
        /\ translating = FALSE
    BY <1>1 DEF TypeInv
  <1>3. translating' = Intercepts(request) /\ forwarded' = Forward
    <2> Intercepts(request) \in BOOLEAN
      BY DEF Intercepts, IsV03Method
    <2>1. CASE InvokeNext
      BY <1>2, <2>1 DEF InvokeNext, Forward
    <2>2. CASE InvokeTranslated
      BY <2>2 DEF InvokeTranslated, Forward
    <2> QED BY <2>1, <2>2
  <1>4. Intercepts(request)' = Intercepts(request) /\ Forward' = Forward
    BY <1>1 DEF Forward, Intercepts
  <1>5. Intercepts(request) \in BOOLEAN
    BY DEF Intercepts, IsV03Method
  <1>6. request' \in Requests
    BY <1>1 DEF TypeInv, Requests
  <1> QED BY <1>1, <1>2, <1>3, <1>4, <1>5, <1>6 DEF TypeInv

\* A step of the handler that writes the lines of one more result.
LEMMA WriteKeeps ==
    ASSUME TypeInv, NEW e \in BOOLEAN, NEW lines \in Seq(Lines(Raw)),
           pc = "inner", sent' = Append(sent, Result(e)), Write(lines),
           UNCHANGED <<request, pc, forwarded, translating, line, got>>,
           \A i \in DOMAIN lines :
             /\ lines[i].type = "data" => Streams
             /\ lines[i].type = "json" => lines[i].result.error \/ forwarded.method = "SendMessage"
    PROVE  TypeInv'
  <1>1. /\ Raw' = Raw /\ Delivered' = Delivered /\ Streams' = Streams
        /\ Forward' = Forward /\ Intercepts(request)' = Intercepts(request)
    BY Settled
  <1>2. sent' \in Seq(Raw)
    <2>1. sent \in Seq(Raw)
      BY DEF TypeInv
    <2>2. Result(e) \in Raw
      BY <2>1, ResultType
    <2> QED BY <2>1, <2>2
  <1>3. CASE translating
    <2>1. buffer' = buffer \o lines /\ wire' = wire
      BY <1>3 DEF Write
    <2>2. buffer \in Seq(Lines(Raw))
      BY DEF TypeInv
    <2>3. buffer' \in Seq(Lines(Raw))
      BY <2>1, <2>2
    <2>4. ASSUME NEW i \in DOMAIN buffer'
          PROVE  /\ buffer'[i].type = "data" => Streams
                 /\ buffer'[i].type = "json" => buffer'[i].result.error \/ forwarded.method = "SendMessage"
      <3>1. CASE i \in DOMAIN buffer
        <4>1. buffer'[i] = buffer[i]
          BY <2>1, <2>2, <3>1
        <4> QED BY <3>1, <4>1 DEF TypeInv
      <3>2. CASE i \notin DOMAIN buffer
        <4>1. i - Len(buffer) \in DOMAIN lines /\ buffer'[i] = lines[i - Len(buffer)]
          BY <2>1, <2>2, <2>4, <3>2
        <4> QED BY <4>1
      <3> QED BY <3>1, <3>2
    <2>5. wire' = <<>>
      BY <1>3, <2>1 DEF TypeInv
    <2> QED BY <1>1, <1>2, <2>1, <2>3, <2>4, <2>5 DEF TypeInv, Lines
  <1>4. CASE ~translating
    <2>1. wire' = wire \o lines /\ buffer' = buffer
      BY <1>4 DEF Write
    <2>2. Delivered = Raw
      BY <1>4 DEF TypeInv, Delivered, Translated
    <2>3. wire \in Seq(Lines(Raw))
      BY <2>2 DEF TypeInv
    <2>4. wire' \in Seq(Lines(Raw))
      BY <2>1, <2>3
    <2> QED BY <1>1, <1>2, <1>4, <2>1, <2>2, <2>4 DEF TypeInv, Lines
  <1> QED BY <1>3, <1>4

LEMMA EmitKeeps ==
    ASSUME TypeInv, HandlerEmits
    PROVE  TypeInv'
  <1> DEFINE lines == <<Data(Result(FALSE)), Blank>>
  <1>1. lines \in Seq(Lines(Raw))
    BY WrittenLines DEF TypeInv
  <1>2. /\ pc = "inner" /\ sent' = Append(sent, Result(FALSE)) /\ Write(lines) /\ Streams
        /\ UNCHANGED <<request, pc, forwarded, translating, line, got>>
    BY DEF HandlerEmits, client
  <1>3. \A i \in DOMAIN lines : lines[i].type # "json"
    BY DEF Data, Blank
  <1> HIDE DEF lines
  <1> QED BY <1>1, <1>2, <1>3, WriteKeeps

LEMMA AnswerKeeps ==
    ASSUME TypeInv, HandlerAnswers
    PROVE  TypeInv'
  <1>1. PICK e \in BOOLEAN :
          /\ ~e => forwarded.method = "SendMessage" /\ request.post /\ request.body = "json"
          /\ sent' = <<Result(e)>>
          /\ Write(<<Document(Result(e))>>)
    BY DEF HandlerAnswers
  <1> DEFINE lines == <<Document(Result(e))>>
  <1>2. lines \in Seq(Lines(Raw))
    BY WrittenLines DEF TypeInv
  <1>3. /\ pc = "inner" /\ sent' = Append(sent, Result(e)) /\ Write(lines)
        /\ UNCHANGED <<request, pc, forwarded, translating, line, got>>
    BY <1>1 DEF HandlerAnswers, client
  <1>4. Result(e).error = e
    BY ResultType DEF TypeInv
  <1>5. \A i \in DOMAIN lines :
          lines[i].type # "data" /\ (lines[i].result.error \/ forwarded.method = "SendMessage")
    BY <1>1, <1>4 DEF Document
  <1> HIDE DEF lines
  <1> QED BY <1>2, <1>3, <1>5, WriteKeeps

LEMMA EndKeeps ==
    ASSUME TypeInv, HandlerReturns \/ HandlerThrows
    PROVE  TypeInv'
  <1>1. /\ pc = "inner" /\ pc' = "answered" /\ buffer' = <<>>
        /\ UNCHANGED <<request, forwarded, translating, sent, line, got>>
    BY DEF HandlerReturns, HandlerThrows, client
  <1>2. /\ Raw' = Raw /\ Delivered' = Delivered
        /\ Forward' = Forward /\ Intercepts(request)' = Intercepts(request)
    BY <1>1, Settled
  <1>3. wire' \in Seq(Lines(Delivered))
    <2>1. CASE HandlerThrows \/ ~translating
      BY <2>1 DEF HandlerReturns, HandlerThrows, TypeInv
    <2>2. CASE HandlerReturns /\ translating
      BY <1>1, <2>2, TranslationDelivers DEF HandlerReturns
    <2> QED BY <2>1, <2>2
  <1>4. Lines(Delivered)' = Lines(Delivered)
    BY <1>2 DEF Lines
  <1>5. buffer' \in Seq(Lines(Raw)') /\ DOMAIN buffer' = {}
    BY <1>1
  <1> QED BY <1>1, <1>2, <1>3, <1>4, <1>5 DEF TypeInv

\* A line the client reads carries nothing but a result it should get.
LEMMA ReadKeeps ==
    ASSUME TypeInv, ClientReads
    PROVE  TypeInv'
  <1>1. /\ wire # <<>> /\ wire' = Tail(wire) /\ ReadLine
        /\ UNCHANGED <<request, pc, forwarded, translating, sent, buffer>>
    BY DEF ClientReads, server
  <1>2. /\ Raw' = Raw /\ Delivered' = Delivered /\ Streams' = Streams
        /\ Forward' = Forward /\ Intercepts(request)' = Intercepts(request)
    BY <1>1, Settled
  <1>3. /\ pc # "arrived" /\ ~(translating /\ pc = "inner")
        /\ wire \in Seq(Lines(Delivered))
        /\ got \in Seq(Delivered) /\ line \in Delivered \union {NoLine}
    BY <1>1 DEF TypeInv
  <1>4. Head(wire) \in Lines(Delivered) /\ Tail(wire) \in Seq(Lines(Delivered))
    BY <1>1, <1>3
  <1>5. Head(wire).type \in {"data", "json"} => Head(wire).result \in Delivered
    BY <1>4, LineKinds
  <1>6. line' \in Delivered \union {NoLine}
    BY <1>1, <1>5 DEF ReadLine
  <1>7. got' \in Seq(Delivered)
    <2>1. CASE Head(wire).type = "blank" /\ line # NoLine
      <3>1. got' = Append(got, line) /\ line \in Delivered
        BY <1>1, <1>3, <2>1 DEF ReadLine
      <3> QED BY <1>3, <3>1
    <2>2. CASE Head(wire).type = "json"
      <3>1. got' = Append(got, Head(wire).result)
        BY <1>1, <2>2 DEF ReadLine
      <3> QED BY <1>3, <1>5, <2>2, <3>1
    <2>3. CASE ~(Head(wire).type = "blank" /\ line # NoLine) /\ Head(wire).type # "json"
      BY <1>1, <1>3, <2>3 DEF ReadLine
    <2> QED BY <2>1, <2>2, <2>3
  <1>8. Lines(Delivered)' = Lines(Delivered) /\ Lines(Raw)' = Lines(Raw)
    BY <1>2 DEF Lines
  <1> QED BY <1>1, <1>2, <1>3, <1>4, <1>6, <1>7, <1>8 DEF TypeInv, NoLine

LEMMA TypeInvNext == TypeInv /\ [Next]_vars => TypeInv'
  <1> SUFFICES ASSUME TypeInv, [Next]_vars PROVE TypeInv'
    OBVIOUS
  <1>1. CASE InvokeNext \/ InvokeTranslated
    BY <1>1, InvokeKeeps
  <1>2. CASE HandlerEmits
    BY <1>2, EmitKeeps
  <1>3. CASE HandlerAnswers
    BY <1>3, AnswerKeeps
  <1>4. CASE HandlerReturns \/ HandlerThrows
    BY <1>4, EndKeeps
  <1>5. CASE ClientReads
    BY <1>5, ReadKeeps
  <1>6. CASE ClientEnds \/ UNCHANGED vars
    <2>1. UNCHANGED <<request, pc, forwarded, translating, sent, buffer, wire, line, got>>
      BY <1>6 DEF ClientEnds, server, client, vars
    <2>2. /\ Raw' = Raw /\ Delivered' = Delivered /\ Streams' = Streams
          /\ Forward' = Forward /\ Intercepts(request)' = Intercepts(request)
      BY <2>1, Settled
    <2> QED BY <2>1, <2>2 DEF TypeInv, Lines
  <1> QED BY <1>1, <1>2, <1>3, <1>4, <1>5, <1>6 DEF Next, Handler

\* What the client has is what the translation delivers of a handler's result.
LEMMA GotFields ==
    ASSUME TypeInv, NEW i \in DOMAIN got, ~got[i].error
    PROVE  /\ got[i].dialect = IF Translated THEN "0.3" ELSE "1.0"
           /\ got[i].quotes = IF Translated THEN MessageToV03(forwarded.message) ELSE forwarded.message
           /\ forwarded = Forward
  <1>1. got[i] \in Delivered /\ forwarded = Forward
    <2>1. got \in Seq(Delivered) /\ got # <<>>
      BY DEF TypeInv
    <2> QED BY <2>1 DEF TypeInv
  <1>2. CASE Translated
    <2>1. PICK r \in Raw : got[i] = ResultToV03(r)
      BY <1>1, <1>2 DEF Delivered
    <2> QED BY <1>1, <1>2, <2>1, RawFields
  <1>3. CASE ~Translated
    <2>1. got[i] \in Raw
      BY <1>1, <1>3 DEF Delivered
    <2> QED BY <1>1, <1>3, <2>1, RawFields
  <1> QED BY <1>2, <1>3

LEMMA TypeInvDialect == TypeInv => ClientDialect
  BY GotFields DEF ClientDialect, Translated

LEMMA TypeInvMessage == TypeInv => OwnMessageComesBack
  <1> SUFFICES ASSUME TypeInv, NEW i \in DOMAIN got,
                      ~got[i].error, request.method # "tasks/resubscribe",
                      ~(request.message.kind /\ ~HasContent(request.message.part))
               PROVE  got[i].quotes = request.message
    BY DEF OwnMessageComesBack
  <1>1. forwarded = Forward
    BY GotFields
  <1>2. CASE Intercepts(request)
    <2>1. request.message \in Messages /\ request.message.kind = (request.method \in V03Methods)
      BY DEF TypeInv, Requests
    <2>2. request.message.kind /\ HasContent(request.message.part)
      BY <1>2, <2>1 DEF Intercepts, IsV03Method
    <2>3. forwarded.message = MessageToV1(request.message) /\ Translated
      BY <1>1, <1>2 DEF Forward, Translated
    <2> QED BY <2>1, <2>2, <2>3, GotFields, MessageComesBack
  <1>3. CASE ~Intercepts(request)
    <2>1. forwarded.message = request.message /\ ~Translated
      BY <1>1, <1>3 DEF Forward, Translated
    <2> QED BY <2>1, GotFields
  <1> QED BY <1>2, <1>3

-----------------------------------------------------------------------------
(* Whatever the middleware keeps in memory, and whenever the client reads, *)
(* a client is answered in the dialect it asked in (V03EndpointHandler's   *)
(* TranslateSseContent and TranslateJsonResponse, chosen by the method).   *)
THEOREM AnsweredInItsDialect == Spec => []ClientDialect
  <1>1. Init => TypeInv
    BY TypeInvInit
  <1>2. TypeInv /\ [Next]_vars => TypeInv'
    BY TypeInvNext
  <1>3. TypeInv => ClientDialect
    BY TypeInvDialect
  <1> QED BY <1>1, <1>2, <1>3, PTL DEF Spec

(* V03Translator's two directions are inverse on what a client of v0.3     *)
(* sends: the task it gets quotes its message with every member it named,  *)
(* for every set of parts whose kinds have the members v0.3 gives them.    *)
THEOREM MessageRoundTrip == Spec => []OwnMessageComesBack
  <1>1. Init => TypeInv
    BY TypeInvInit
  <1>2. TypeInv /\ [Next]_vars => TypeInv'
    BY TypeInvNext
  <1>3. TypeInv => OwnMessageComesBack
    BY TypeInvMessage
  <1> QED BY <1>1, <1>2, <1>3, PTL DEF Spec
=============================================================================
