------------------------- MODULE PlaygroundChatProofs -------------------------
(***************************************************************************)
(* Proofs about the chat of the playground, for any number of requests and *)
(* events and any cap on the messages kept.                                *)
(***************************************************************************)
EXTENDS PlaygroundChat, SequenceTheorems, FiniteSetTheorems, TLAPS

-----------------------------------------------------------------------------
(* Lists of messages.  A request's answers are the kinds of its messages   *)
(* that are no question.                                                   *)

Entries == (Requests \union {None}) \X {"question", "bubble", "reply", "error"}

IsAnswer(list, i, r) == list[i][1] = r /\ list[i][2] # "question"
Of(list, r) == {list[i][2] : i \in {j \in DOMAIN list : IsAnswer(list, j, r)}}

OneAnswer(list) ==
  \A r \in Requests : \A i, j \in DOMAIN list : IsAnswer(list, i, r) /\ IsAnswer(list, j, r) => i = j

\* A part of a list has no answer that the list has not, and none twice.
PartOf(part, list) ==
  /\ \A r \in Requests : Of(part, r) \subseteq Of(list, r)
  /\ OneAnswer(list) => OneAnswer(part)

LEMMA RequestsAreNumbers == Requests \subseteq Nat /\ None \notin Requests
  BY MaxRequestsAssumption DEF Requests, None

\* What is moved, but not made, is a part.
LEMMA MovedIsPart ==
    ASSUME NEW list, NEW part, NEW place,
           \A i \in DOMAIN part : place[i] \in DOMAIN list /\ part[i] = list[place[i]],
           \A i, j \in DOMAIN part : place[i] = place[j] => i = j
    PROVE  PartOf(part, list)
  <1>1. ASSUME NEW r \in Requests, NEW x \in Of(part, r)
        PROVE  x \in Of(list, r)
    <2>1. PICK i \in DOMAIN part : IsAnswer(part, i, r) /\ x = part[i][2]
      BY DEF Of
    <2>2. place[i] \in DOMAIN list /\ IsAnswer(list, place[i], r) /\ x = list[place[i]][2]
      BY <2>1 DEF IsAnswer
    <2> QED BY <2>2 DEF Of
  <1>2. ASSUME OneAnswer(list), NEW r \in Requests, NEW i \in DOMAIN part, NEW j \in DOMAIN part,
               IsAnswer(part, i, r), IsAnswer(part, j, r)
        PROVE  i = j
    <2>1. /\ place[i] \in DOMAIN list /\ IsAnswer(list, place[i], r)
          /\ place[j] \in DOMAIN list /\ IsAnswer(list, place[j], r)
      BY <1>2 DEF IsAnswer
    <2>2. place[i] = place[j]
      BY <1>2, <2>1 DEF OneAnswer
    <2> QED BY <2>2
  <1> QED BY <1>1, <1>2 DEF PartOf, OneAnswer

LEMMA PartOfPart ==
    ASSUME NEW a, NEW b, NEW c, PartOf(a, b), PartOf(b, c)
    PROVE  PartOf(a, c)
  BY DEF PartOf

\* A stretch of a list is a part of it.
LEMMA StretchIsPart ==
    ASSUME NEW list \in Seq(Entries), NEW m \in Nat \ {0}, NEW n \in 0 .. Len(list)
    PROVE  /\ SubSeq(list, m, n) \in Seq(Entries)
           /\ Len(SubSeq(list, m, n)) = IF m <= n THEN n - m + 1 ELSE 0
           /\ \A i \in 1 .. n - m + 1 : SubSeq(list, m, n)[i] = list[m + i - 1]
           /\ PartOf(SubSeq(list, m, n), list)
  <1> DEFINE part == SubSeq(list, m, n)
             place == [i \in DOMAIN part |-> m + i - 1]
  <1>1. Len(list) \in Nat /\ DOMAIN list = 1 .. Len(list) /\ \A i \in 1 .. Len(list) : list[i] \in Entries
    OBVIOUS
  <1>2. \A i \in m .. n : list[i] \in Entries
    BY <1>1
  <1>3. /\ part \in Seq(Entries)
        /\ Len(part) = IF m <= n THEN n - m + 1 ELSE 0
        /\ \A i \in 1 .. n - m + 1 : part[i] = list[m + i - 1]
    BY <1>1, <1>2, SubSeqProperties
  <1>4. DOMAIN part = 1 .. Len(part)
    BY <1>3
  <1>5. \A i \in DOMAIN part : i \in 1 .. n - m + 1 /\ m + i - 1 \in DOMAIN list
    BY <1>1, <1>3, <1>4
  <1>6. \A i \in DOMAIN part : place[i] \in DOMAIN list /\ part[i] = list[place[i]]
    BY <1>3, <1>5
  <1>7. \A i, j \in DOMAIN part : place[i] = place[j] => i = j
    BY <1>4
  <1> HIDE DEF part, place
  <1>8. PartOf(part, list)
    BY <1>6, <1>7, MovedIsPart
  <1> QED BY <1>3, <1>8 DEF part

LEMMA KeptIsPart ==
    ASSUME NEW list \in Seq(Entries)
    PROVE  Kept(list) \in Seq(Entries) /\ Len(Kept(list)) <= Cap /\ PartOf(Kept(list), list)
  <1>1. Len(list) \in Nat /\ Cap \in Nat \ {0}
    BY CapAssumption
  <1>2. CASE Len(list) > Cap
    <2>1. Len(list) - Cap + 1 \in Nat \ {0} /\ Len(list) \in 0 .. Len(list)
      BY <1>1, <1>2
    <2>2. Kept(list) = SubSeq(list, Len(list) - Cap + 1, Len(list))
      BY <1>2 DEF Kept
    <2>3. Len(list) - (Len(list) - Cap + 1) + 1 = Cap
      BY <1>1
    <2> QED BY <1>1, <2>1, <2>2, <2>3, StretchIsPart
  <1>3. CASE ~(Len(list) > Cap)
    BY <1>1, <1>3 DEF Kept, PartOf
  <1> QED BY <1>2, <1>3

\* A message that is no answer, or the first answer of its request, is added.
LEMMA Added ==
    ASSUME NEW list \in Seq(Entries), NEW m \in Entries
    PROVE  /\ Append(list, m) \in Seq(Entries)
           /\ \A r \in Requests :
                Of(Append(list, m), r) \subseteq
                  Of(list, r) \union (IF m[1] = r /\ m[2] # "question" THEN {m[2]} ELSE {})
           /\ OneAnswer(list) /\ (m[2] = "question" \/ m[1] = None \/ Of(list, m[1]) = {})
                => OneAnswer(Append(list, m))
  <1> DEFINE new == Append(list, m)
             n == Len(list)
  <1>1. /\ new \in Seq(Entries) /\ n \in Nat /\ Len(new) = n + 1
        /\ DOMAIN list = 1 .. n /\ DOMAIN new = 1 .. n + 1
        /\ \A i \in 1 .. n : new[i] = list[i]
        /\ new[n + 1] = m
    <2>1. new \in Seq(Entries) /\ n \in Nat /\ Len(new) = n + 1
      OBVIOUS
    <2>2. DOMAIN list = 1 .. n /\ DOMAIN new = 1 .. n + 1
      OBVIOUS
    <2>3. \A i \in 1 .. n : new[i] = list[i]
      BY AppendProperties
    <2>4. new[n + 1] = m
      BY AppendProperties
    <2> QED BY <2>1, <2>2, <2>3, <2>4
  <1> HIDE DEF new, n
  <1>2. \A i \in DOMAIN new : \/ i \in DOMAIN list /\ new[i] = list[i]
                              \/ i = n + 1 /\ new[i] = m
    BY <1>1
  <1>3. ASSUME NEW r \in Requests, NEW x \in Of(new, r)
        PROVE  x \in Of(list, r) \union (IF m[1] = r /\ m[2] # "question" THEN {m[2]} ELSE {})
    <2>1. PICK i \in DOMAIN new : IsAnswer(new, i, r) /\ x = new[i][2]
      BY DEF Of
    <2>2. CASE i \in DOMAIN list /\ new[i] = list[i]
      BY <2>1, <2>2 DEF Of, IsAnswer
    <2>3. CASE new[i] = m
      BY <2>1, <2>3 DEF IsAnswer
    <2> QED BY <1>2, <2>2, <2>3
  <1>4. ASSUME OneAnswer(list), m[2] = "question" \/ m[1] = None \/ Of(list, m[1]) = {},
               NEW r \in Requests, NEW i \in DOMAIN new, NEW j \in DOMAIN new,
               IsAnswer(new, i, r), IsAnswer(new, j, r)
        PROVE  i = j
    <2>1. ASSUME NEW a \in DOMAIN new, NEW b \in DOMAIN list, IsAnswer(new, a, r), new[a] = m,
                 IsAnswer(new, b, r), new[b] = list[b]
          PROVE  FALSE
      <3>1. m[1] = r /\ m[2] # "question" /\ m[1] # None
        BY <2>1, RequestsAreNumbers DEF IsAnswer
      <3>2. list[b][2] \in Of(list, r)
        BY <2>1 DEF Of, IsAnswer
      <3> QED BY <1>4, <3>1, <3>2
    <2>2. CASE i \in DOMAIN list /\ new[i] = list[i] /\ j \in DOMAIN list /\ new[j] = list[j]
      BY <1>4, <2>2 DEF OneAnswer, IsAnswer
    <2> QED BY <1>2, <1>4, <2>1, <2>2
  <1>5. OneAnswer(list) /\ (m[2] = "question" \/ m[1] = None \/ Of(list, m[1]) = {}) => OneAnswer(new)
    BY <1>4 DEF OneAnswer
  <1> QED BY <1>1, <1>3, <1>5 DEF new

\* Taking the bubble of a request away leaves the request without an answer.
LEMMA BubbleGone ==
    ASSUME NEW list \in Seq(Entries), NEW r \in Requests, Shown(list, r, "bubble")
    PROVE  /\ Without(list, <<r, "bubble">>) \in Seq(Entries)
           /\ Len(Without(list, <<r, "bubble">>)) = Len(list) - 1
           /\ PartOf(Without(list, <<r, "bubble">>), list)
           /\ OneAnswer(list) => Of(Without(list, <<r, "bubble">>), r) = {}
  <1> DEFINE m == <<r, "bubble">>
             k == CHOOSE i \in DOMAIN list : list[i] = m
             n == Len(list)
             left == SubSeq(list, 1, k - 1)
             right == SubSeq(list, k + 1, n)
             rest == left \o right
  <1>1. n \in Nat /\ DOMAIN list = 1 .. n
    OBVIOUS
  <1>2. k \in 1 .. n /\ list[k] = m
    BY <1>1 DEF Shown
  <1>3. Without(list, m) = rest
    BY DEF Without, RemoveAt
  <1> HIDE DEF k, n
  <1>4. /\ left \in Seq(Entries) /\ Len(left) = k - 1
        /\ \A i \in 1 .. k - 1 : left[i] = list[i]
    <2>1. k - 1 \in 0 .. Len(list) /\ 1 \in Nat \ {0}
      BY <1>1, <1>2 DEF n
    <2>2. /\ left \in Seq(Entries) /\ Len(left) = IF 1 <= k - 1 THEN k - 1 - 1 + 1 ELSE 0
          /\ \A i \in 1 .. k - 1 - 1 + 1 : left[i] = list[1 + i - 1]
      BY <2>1, StretchIsPart
    <2> HIDE DEF left
    <2> QED BY <1>1, <1>2, <2>2
  <1>5. /\ right \in Seq(Entries) /\ Len(right) = n - k
        /\ \A i \in 1 .. n - k : right[i] = list[k + i]
    <2>1. k + 1 \in Nat \ {0} /\ n \in 0 .. Len(list)
      BY <1>1, <1>2 DEF n
    <2>2. /\ right \in Seq(Entries) /\ Len(right) = IF k + 1 <= n THEN n - (k + 1) + 1 ELSE 0
          /\ \A i \in 1 .. n - (k + 1) + 1 : right[i] = list[k + 1 + i - 1]
      BY <2>1, StretchIsPart
    <2> HIDE DEF right
    <2> QED BY <1>1, <1>2, <2>2
  <1> HIDE DEF left, right
  <1>6. /\ rest \in Seq(Entries) /\ Len(rest) = n - 1 /\ DOMAIN rest = 1 .. n - 1
        /\ \A i \in 1 .. n - 1 : rest[i] = IF i < k THEN list[i] ELSE list[i + 1]
    <2>1. rest \in Seq(Entries) /\ Len(rest) = (k - 1) + (n - k)
      <3>1. rest \in Seq(Entries) /\ Len(rest) = Len(left) + Len(right)
        BY <1>4, <1>5, ConcatProperties
      <3> QED BY <1>4, <1>5, <3>1
    <2>2. \A i \in 1 .. (k - 1) + (n - k) :
            rest[i] = IF i <= k - 1 THEN left[i] ELSE right[i - (k - 1)]
      <3>1. \A i \in 1 .. Len(left) + Len(right) :
              rest[i] = IF i <= Len(left) THEN left[i] ELSE right[i - Len(left)]
        BY <1>4, <1>5, ConcatProperties
      <3> QED BY <1>4, <1>5, <3>1
    <2> HIDE DEF rest
    <2>3. Len(rest) = n - 1 /\ DOMAIN rest = 1 .. n - 1
      BY <1>1, <1>2, <2>1
    <2>4. ASSUME NEW i \in 1 .. n - 1
          PROVE  rest[i] = IF i < k THEN list[i] ELSE list[i + 1]
      <3>1. rest[i] = IF i <= k - 1 THEN left[i] ELSE right[i - (k - 1)]
        BY <1>1, <1>2, <2>2
      <3>2. CASE i < k
        BY <1>1, <1>2, <1>4, <3>1, <3>2
      <3>3. CASE ~(i < k)
        <4>1. i - (k - 1) \in 1 .. n - k /\ k + (i - (k - 1)) = i + 1
          BY <1>1, <1>2, <3>3
        <4>2. right[i - (k - 1)] = list[i + 1]
          BY <1>5, <4>1
        <4> QED BY <1>1, <1>2, <3>1, <3>3, <4>2
      <3> QED BY <3>2, <3>3
    <2> QED BY <2>1, <2>3, <2>4
  <1> DEFINE place == [i \in DOMAIN rest |-> IF i < k THEN i ELSE i + 1]
  <1> HIDE DEF rest
  <1>7. /\ \A i \in DOMAIN rest : place[i] \in DOMAIN list /\ rest[i] = list[place[i]] /\ place[i] # k
        /\ \A i, j \in DOMAIN rest : place[i] = place[j] => i = j
    BY <1>1, <1>2, <1>6
  <1> HIDE DEF place
  <1>8. PartOf(rest, list)
    BY <1>7, MovedIsPart
  <1>9. ASSUME OneAnswer(list), NEW x \in Of(rest, r)
        PROVE  FALSE
    <2>1. PICK i \in DOMAIN rest : IsAnswer(rest, i, r)
      BY <1>9 DEF Of
    <2>2. place[i] \in DOMAIN list /\ IsAnswer(list, place[i], r) /\ place[i] # k
      BY <1>7, <2>1 DEF IsAnswer
    <2>3. k \in DOMAIN list /\ IsAnswer(list, k, r)
      BY <1>1, <1>2 DEF IsAnswer
    <2> QED BY <1>9, <2>2, <2>3 DEF OneAnswer
  <1>10. Len(rest) = Len(list) - 1
    BY <1>6 DEF n
  <1> QED BY <1>3, <1>6, <1>8, <1>9, <1>10

LEMMA ShownIsAnswer ==
    ASSUME NEW list \in Seq(Entries), NEW r
    PROVE  Shown(list, r, "bubble") <=> "bubble" \in Of(list, r)
  <1>1. ASSUME Shown(list, r, "bubble") PROVE "bubble" \in Of(list, r)
    <2>1. PICK i \in DOMAIN list : list[i] = <<r, "bubble">>
      BY <1>1 DEF Shown
    <2>2. IsAnswer(list, i, r) /\ list[i][2] = "bubble"
      BY <2>1 DEF IsAnswer
    <2> QED BY <2>2 DEF Of
  <1>2. ASSUME "bubble" \in Of(list, r) PROVE Shown(list, r, "bubble")
    <2>1. PICK i \in DOMAIN list : IsAnswer(list, i, r) /\ list[i][2] = "bubble"
      BY <1>2 DEF Of
    <2>2. list[i] \in Entries
      OBVIOUS
    <2>3. list[i] = <<r, "bubble">>
      BY <2>1, <2>2 DEF IsAnswer, Entries
    <2> QED BY <2>3 DEF Shown
  <1> QED BY <1>1, <1>2

-----------------------------------------------------------------------------
(* The invariant: what holds of each request, and what of the chat.        *)

\* A request that waits for a plain answer has no message yet, one with a
\* stream only its bubble; a bubble that spins has a stream; what spins as
\* working, or is shown completed, has brought no bad news.
RequestInv(r) ==
  /\ phase[r] \in {"unsent", "plain", "fallback"} => Of(messages, r) = {}
  /\ phase[r] \in {"post", "read"} => Of(messages, r) \subseteq {"bubble"}
  /\ "bubble" \in Of(messages, r) /\ bubble[r].streaming =>
       /\ phase[r] \in {"post", "read"}
       /\ bubble[r].status = "working" => said[r] \notin Unhappy
  /\ bubble[r].status = "completed" =>
       said[r] \notin Unhappy /\ (said[r] = "completed" \/ phase[r] = "done")
  /\ phase[r] = "unsent" => said[r] = "nothing" /\ r \notin aborted
  /\ r \in aborted /\ "bubble" \in Of(messages, r) /\ phase[r] = "done" =>
       bubble[r].status \in {"canceled", "failed"}

TypeInv ==
  /\ messages \in Seq(Entries) /\ Len(messages) <= Cap
  /\ bubble \in [Requests -> [status : Statuses, streaming : BOOLEAN]]
  /\ isStreaming \in BOOLEAN
  /\ contextId \in Requests \union {None} /\ controller \in Requests \union {None}
  /\ phase \in [Requests -> Phases]
  /\ events \in [Requests -> 0 .. MaxEvents]
  /\ said \in [Requests -> Said]
  /\ aborted \subseteq Requests /\ disturbed \subseteq Requests

\* Two requests run at once only if the user brought it about.
GateInv ==
  /\ isStreaming => \E r \in Requests : phase[r] \in Running
  /\ ~isStreaming => \A r \in Requests : phase[r] \in Running => r \in disturbed
  /\ \A q, r \in Requests : phase[q] \in Running /\ phase[r] \in Running /\ q # r => q \in disturbed

ChatInv ==
  /\ TypeInv
  /\ OneAnswer(messages)
  /\ \A r \in Requests : RequestInv(r)
  /\ GateInv
  /\ ControllerIsLive

LEMMA Working == Running = {"post", "read", "plain", "fallback"}
  BY DEF Running

\* A request that a step does not touch keeps what holds of it.
LEMMA Untouched ==
    ASSUME NEW r \in Requests, RequestInv(r),
           phase'[r] = phase[r], bubble'[r] = bubble[r], said'[r] = said[r],
           r \in aborted' <=> r \in aborted,
           Of(messages', r) \subseteq Of(messages, r)
    PROVE  RequestInv(r)'
  <1> USE DEF RequestInv
  <1>1. phase[r] \in {"unsent", "plain", "fallback"} => Of(messages', r) = {}
    OBVIOUS
  <1>2. phase[r] \in {"post", "read"} => Of(messages', r) \subseteq {"bubble"}
    OBVIOUS
  <1>3. "bubble" \in Of(messages', r) => "bubble" \in Of(messages, r)
    OBVIOUS
  <1> QED BY <1>1, <1>2, <1>3

LEMMA ChatInvInit == Init => ChatInv
  <1> SUFFICES ASSUME Init PROVE ChatInv
    OBVIOUS
  <1>1. /\ messages = <<>> /\ isStreaming = FALSE /\ contextId = None /\ controller = None
        /\ bubble = [r \in Requests |-> [status |-> "working", streaming |-> FALSE]]
        /\ phase = [r \in Requests |-> "unsent"] /\ events = [r \in Requests |-> 0]
        /\ said = [r \in Requests |-> "nothing"]
        /\ aborted = {} /\ disturbed = {}
    BY DEF Init
  <1>2. messages \in Seq(Entries) /\ Len(messages) = 0 /\ DOMAIN messages = {}
    BY <1>1
  <1>3. TypeInv
    <2>1. /\ bubble \in [Requests -> [status : Statuses, streaming : BOOLEAN]]
          /\ phase \in [Requests -> Phases] /\ events \in [Requests -> 0 .. MaxEvents]
          /\ said \in [Requests -> Said]
      BY <1>1, MaxEventsAssumption DEF Statuses, Phases, Said
    <2>2. Len(messages) <= Cap
      BY <1>2, CapAssumption
    <2>3. /\ isStreaming \in BOOLEAN
          /\ contextId \in Requests \union {None} /\ controller \in Requests \union {None}
          /\ aborted \subseteq Requests /\ disturbed \subseteq Requests
      BY <1>1
    <2> QED BY <1>2, <2>1, <2>2, <2>3 DEF TypeInv
  <1>4. \A r \in Requests : Of(messages, r) = {}
    BY <1>2 DEF Of
  <1>5. OneAnswer(messages)
    BY <1>2 DEF OneAnswer
  <1>6. \A r \in Requests : RequestInv(r)
    BY <1>1, <1>4 DEF RequestInv
  <1>7. GateInv
    BY <1>1 DEF GateInv, Running
  <1>8. ControllerIsLive
    BY <1>1 DEF ControllerIsLive
  <1> QED BY <1>3, <1>5, <1>6, <1>7, <1>8 DEF ChatInv

\* A request ends: the finally blocks.
LEMMA FinishKeeps ==
    ASSUME TypeInv, GateInv, ControllerIsLive, NEW r \in Requests, phase[r] \in Running,
           Finish(r), UNCHANGED <<aborted, disturbed>>
    PROVE  /\ GateInv' /\ ControllerIsLive'
           /\ phase' = [phase EXCEPT ![r] = "done"]
           /\ phase' \in [Requests -> Phases] /\ events' \in [Requests -> 0 .. MaxEvents]
           /\ isStreaming' \in BOOLEAN /\ controller' \in Requests \union {None}
  <1>1. /\ phase' = [phase EXCEPT ![r] = "done"] /\ isStreaming' = FALSE
        /\ events' = [events EXCEPT ![r] = 0]
        /\ controller' = IF controller = r THEN None ELSE controller
    BY DEF Finish
  <1>2. /\ phase' \in [Requests -> Phases] /\ events' \in [Requests -> 0 .. MaxEvents]
        /\ controller' \in Requests \union {None}
    BY <1>1, MaxEventsAssumption DEF TypeInv, Phases
  <1>3. phase'[r] = "done" /\ \A q \in Requests \ {r} : phase'[q] = phase[q]
    BY <1>1 DEF TypeInv
  <1>4. \A q \in Requests : phase'[q] \in Running => phase[q] \in Running /\ q # r
    BY <1>3 DEF Running
  <1>5. GateInv'
    BY <1>1, <1>4 DEF GateInv
  <1>6. ControllerIsLive'
    <2> SUFFICES ASSUME controller' # None
                 PROVE  /\ phase'[controller'] \in {"post", "read", "fallback"}
                        /\ controller' \notin aborted'
                        /\ \A q \in Requests : q > controller' => phase'[q] \notin {"post", "read", "fallback"}
      BY DEF ControllerIsLive
    <2>1. controller' = controller /\ controller \in Requests \ {r} /\ controller # None
      BY <1>1 DEF TypeInv
    <2>2. /\ phase[controller] \in {"post", "read", "fallback"} /\ controller \notin aborted
          /\ \A q \in Requests : q > controller => phase[q] \notin {"post", "read", "fallback"}
      BY <2>1 DEF ControllerIsLive
    <2> QED BY <1>3, <2>1, <2>2
  <1> QED BY <1>1, <1>2, <1>5, <1>6

-----------------------------------------------------------------------------
(* The lists the actions make.                                             *)

\* What a new list must be: well formed, and with answers of r within kinds.
Listed(new, list, r, kinds) ==
  /\ new \in Seq(Entries) /\ Len(new) <= Cap
  /\ OneAnswer(new)
  /\ \A q \in Requests : q # r => Of(new, q) \subseteq Of(list, q)
  /\ r \in Requests => Of(new, r) \subseteq Of(list, r) \union kinds

LEMMA ListedKept ==
    ASSUME NEW list, NEW long \in Seq(Entries), OneAnswer(long), NEW r, NEW kinds,
           \A q \in Requests : q # r => Of(long, q) \subseteq Of(list, q),
           r \in Requests => Of(long, r) \subseteq Of(list, r) \union kinds
    PROVE  Listed(Kept(long), list, r, kinds)
  <1>1. Kept(long) \in Seq(Entries) /\ Len(Kept(long)) <= Cap /\ PartOf(Kept(long), long)
    BY KeptIsPart
  <1>2. OneAnswer(Kept(long)) /\ \A q \in Requests : Of(Kept(long), q) \subseteq Of(long, q)
    BY <1>1 DEF PartOf
  <1> QED BY <1>1, <1>2 DEF Listed

\* A question is added.
LEMMA QuestionAdded ==
    ASSUME NEW list \in Seq(Entries), NEW old, PartOf(list, old), OneAnswer(old), NEW r \in Requests
    PROVE  /\ Append(list, <<r, "question">>) \in Seq(Entries)
           /\ PartOf(Append(list, <<r, "question">>), old)
  <1> DEFINE m == <<r, "question">>
  <1>1. m \in Entries /\ m[1] = r /\ m[2] = "question"
    BY DEF Entries
  <1> HIDE DEF m
  <1>2. OneAnswer(list) /\ \A q \in Requests : Of(list, q) \subseteq Of(old, q)
    BY DEF PartOf
  <1>3. Append(list, m) \in Seq(Entries) /\ OneAnswer(Append(list, m))
    BY <1>1, <1>2, Added
  <1>4. \A q \in Requests : Of(Append(list, m), q) \subseteq
          Of(list, q) \union (IF m[1] = q /\ m[2] # "question" THEN {m[2]} ELSE {})
    BY <1>1, Added
  <1>5. \A q \in Requests : Of(Append(list, m), q) \subseteq Of(old, q)
    BY <1>1, <1>2, <1>4
  <1> QED BY <1>3, <1>5 DEF m, PartOf

\* An answer is added where there is none, or a message of no request.
LEMMA AnswerAdded ==
    ASSUME NEW list \in Seq(Entries), NEW old, PartOf(list, old), OneAnswer(old),
           NEW r \in Requests \union {None}, r = None \/ Of(old, r) = {},
           NEW k \in {"bubble", "reply", "error"}
    PROVE  Listed(Kept(Append(list, <<r, k>>)), old, r, {k})
  <1> DEFINE m == <<r, k>>
             long == Append(list, m)
  <1>1. m \in Entries /\ m[1] = r /\ m[2] = k
    BY DEF Entries
  <1> HIDE DEF m
  <1>2. OneAnswer(list) /\ \A q \in Requests : Of(list, q) \subseteq Of(old, q)
    BY DEF PartOf
  <1>3. m[1] = None \/ Of(list, m[1]) = {}
    BY <1>1, <1>2
  <1>4. long \in Seq(Entries) /\ OneAnswer(long)
    BY <1>1, <1>2, <1>3, Added
  <1>5. \A q \in Requests :
          Of(long, q) \subseteq Of(list, q) \union (IF m[1] = q /\ m[2] # "question" THEN {m[2]} ELSE {})
    BY <1>1, Added
  <1> HIDE DEF long
  <1>6. \A q \in Requests : q # r => Of(long, q) \subseteq Of(old, q)
    BY <1>1, <1>2, <1>5
  <1>7. r \in Requests => Of(long, r) \subseteq Of(old, r) \union {k}
    BY <1>1, <1>2, <1>5
  <1>8. Listed(Kept(long), old, r, {k})
    BY <1>4, <1>6, <1>7, ListedKept
  <1> QED BY <1>8 DEF long, m

\* A part of the old list is kept.
LEMMA PartKept ==
    ASSUME NEW part \in Seq(Entries), NEW old, PartOf(part, old), OneAnswer(old), NEW r
    PROVE  Listed(Kept(part), old, r, {})
  <1>1. OneAnswer(part) /\ \A q \in Requests : Of(part, q) \subseteq Of(old, q)
    BY DEF PartOf
  <1> QED BY <1>1, ListedKept

\* A question and its answer are added.
LEMMA PairAdded ==
    ASSUME NEW list \in Seq(Entries), NEW old, PartOf(list, old), OneAnswer(old),
           NEW r \in Requests, Of(old, r) = {}, NEW k \in {"bubble", "reply", "error"}
    PROVE  Listed(Kept(list \o <<<<r, "question">>, <<r, k>>>>), old, r, {k})
  <1> DEFINE a == <<r, "question">>
             b == <<r, k>>
             first == Append(list, a)
  <1>1. first \in Seq(Entries) /\ PartOf(first, old)
    BY QuestionAdded
  <1>2. Append(first, b) = list \o <<a, b>>
    <2>1. a \in Entries /\ b \in Entries
      BY DEF Entries
    <2> HIDE DEF a, b
    <2> QED BY <2>1
  <1> HIDE DEF first
  <1>3. Listed(Kept(Append(first, b)), old, r, {k})
    BY <1>1, AnswerAdded
  <1> QED BY <1>2, <1>3

-----------------------------------------------------------------------------
(* The user's steps.                                                       *)

\* The request that is sent was untouched.
LEMMA NextRequest ==
    ASSUME ChatInv, NEW r \in Requests, \A q \in Requests : phase[q] = "unsent" <=> q >= r
    PROVE  /\ phase[r] = "unsent" /\ Of(messages, r) = {} /\ said[r] = "nothing"
           /\ r \notin aborted /\ bubble[r].status # "completed"
           /\ \A q \in Requests : q > r => phase[q] = "unsent"
           /\ controller # None => controller \in Requests /\ controller < r
  <1>1. r \in Nat /\ Requests \subseteq Nat
    BY RequestsAreNumbers
  <1>2. phase[r] = "unsent" /\ \A q \in Requests : q > r => phase[q] = "unsent"
    BY <1>1
  <1>3. RequestInv(r)
    BY DEF ChatInv
  <1>4. Of(messages, r) = {} /\ said[r] = "nothing" /\ r \notin aborted
    BY <1>2, <1>3 DEF RequestInv
  <1>5. bubble[r].status # "completed"
    BY <1>2, <1>3, <1>4 DEF RequestInv
  <1>6. ASSUME controller # None PROVE controller \in Requests /\ controller < r
    <2>1. controller \in Requests /\ phase[controller] # "unsent"
      BY <1>6 DEF ChatInv, TypeInv, ControllerIsLive
    <2> QED BY <1>1, <2>1
  <1> QED BY <1>2, <1>4, <1>5, <1>6

\* What each of the three ways to send a request does to it.
Sent(r) ==
  /\ \E kinds : Listed(messages', messages, r, kinds)
  /\ \E p \in {"post", "plain", "done"} : phase' = [phase EXCEPT ![r] = p]
  /\ isStreaming' \in BOOLEAN /\ (isStreaming' <=> phase'[r] \in {"post", "plain"})
  /\ contextId' \in {r, contextId}
  /\ bubble' \in [Requests -> [status : Statuses, streaming : BOOLEAN]]
  /\ bubble'[r].status = bubble[r].status
  /\ \A q \in Requests : q # r => bubble'[q] = bubble[q]
  /\ \/ phase'[r] = "post" /\ Of(messages', r) \subseteq {"bubble"} /\ controller' = r
     \/ phase'[r] = "plain" /\ Of(messages', r) = {} /\ controller' = controller
     \/ phase'[r] = "done" /\ "bubble" \notin Of(messages', r) /\ controller' = controller

LEMMA SendIsSent ==
    ASSUME ChatInv, NEW r \in Requests, NEW kind \in Kinds,
           NEW list \in Seq(Entries), PartOf(list, messages), Send(list, r, kind)
    PROVE  Sent(r)
  <1>1. TypeInv /\ OneAnswer(messages)
    BY DEF ChatInv
  <1>2. Of(messages, r) = {}
    BY NextRequest DEF Send
  <1>3. CASE kind = "stream"
    <2>1. SendStream(list, r)
      BY <1>3 DEF Send
    <2>2. /\ messages' = Kept(list \o <<<<r, "question">>, <<r, "bubble">>>>)
          /\ bubble' = [bubble EXCEPT ![r].streaming = TRUE]
          /\ controller' = r /\ phase' = [phase EXCEPT ![r] = "post"]
          /\ isStreaming' = TRUE /\ contextId' = contextId
      BY <2>1 DEF SendStream
    <2>3. Listed(messages', messages, r, {"bubble"})
      BY <1>1, <1>2, <2>2, PairAdded
    <2>4. /\ bubble' \in [Requests -> [status : Statuses, streaming : BOOLEAN]]
          /\ bubble'[r].status = bubble[r].status
          /\ \A q \in Requests : q # r => bubble'[q] = bubble[q]
      BY <1>1, <2>2 DEF TypeInv
    <2>5. Of(messages', r) \subseteq {"bubble"} /\ phase'[r] = "post"
      BY <1>1, <1>2, <2>2, <2>3 DEF Listed, TypeInv
    <2> QED BY <2>2, <2>3, <2>4, <2>5 DEF Sent
  <1>4. CASE kind = "plain"
    <2>1. SendPlain(list, r)
      BY <1>4 DEF Send
    <2>2. /\ messages' = Kept(Append(list, <<r, "question">>))
          /\ phase' = [phase EXCEPT ![r] = "plain"] /\ isStreaming' = TRUE
          /\ bubble' = bubble /\ controller' = controller /\ contextId' = contextId
      BY <2>1 DEF SendPlain
    <2>3. Listed(messages', messages, r, {})
      <3>1. /\ Append(list, <<r, "question">>) \in Seq(Entries)
            /\ PartOf(Append(list, <<r, "question">>), messages)
        BY <1>1, QuestionAdded
      <3> QED BY <1>1, <2>2, <3>1, PartKept
    <2>4. Of(messages', r) = {} /\ phase'[r] = "plain"
      BY <1>1, <1>2, <2>2, <2>3 DEF Listed, TypeInv
    <2> QED BY <1>1, <2>2, <2>3, <2>4 DEF TypeInv, Sent
  <1>5. CASE kind = "mock"
    <2>1. SendMock(list, r)
      BY <1>5 DEF Send
    <2>2. /\ phase' = [phase EXCEPT ![r] = "done"] /\ isStreaming' = FALSE
          /\ bubble' = bubble /\ controller' = controller /\ contextId' \in {r, contextId}
      BY <2>1 DEF SendMock
    <2>3. \E k \in {"reply", "error"} : messages' = Kept(list \o <<<<r, "question">>, <<r, k>>>>)
      BY <2>1 DEF SendMock
    <2>4. PICK k \in {"reply", "error"} : messages' = Kept(list \o <<<<r, "question">>, <<r, k>>>>)
      BY <2>3
    <2>5. Listed(messages', messages, r, {k})
      BY <1>1, <1>2, <2>4, PairAdded
    <2>6. Of(messages', r) \subseteq {"reply", "error"} /\ phase'[r] = "done"
      BY <1>1, <1>2, <2>2, <2>5 DEF Listed, TypeInv
    <2> QED BY <1>1, <2>2, <2>5, <2>6 DEF TypeInv, Sent
  <1> QED BY <1>3, <1>4, <1>5 DEF Kinds

LEMMA SentKeeps ==
    ASSUME ChatInv, NEW r \in Requests, \A q \in Requests : phase[q] = "unsent" <=> q >= r,
           Disturb(r), UNCHANGED <<events, aborted, said>>, Sent(r)
    PROVE  ChatInv'
  <1>1. TypeInv /\ GateInv /\ ControllerIsLive
        /\ \A q \in Requests : RequestInv(q)
    BY DEF ChatInv
  <1>2. /\ phase[r] = "unsent" /\ said[r] = "nothing"
        /\ r \notin aborted /\ bubble[r].status # "completed"
        /\ \A q \in Requests : q > r => phase[q] = "unsent"
        /\ controller # None => controller \in Requests /\ controller < r
    BY NextRequest
  <1>3. /\ disturbed' = disturbed \union (IF InFlight = {} THEN {} ELSE InFlight \union {r})
        /\ events' = events /\ aborted' = aborted /\ said' = said
    BY DEF Disturb
  <1>4. PICK p \in {"post", "plain", "done"} : phase' = [phase EXCEPT ![r] = p]
    BY DEF Sent
  <1>5. phase'[r] = p /\ (\A q \in Requests : q # r => phase'[q] = phase[q])
        /\ phase' \in [Requests -> Phases]
    BY <1>1, <1>4 DEF TypeInv, Phases, Running
  <1>6. \A q \in Requests : phase[q] \in Running => q # r /\ q \in disturbed' /\ r \in disturbed'
    BY <1>2, <1>3 DEF InFlight, Running
  <1>7. messages' \in Seq(Entries) /\ Len(messages') <= Cap /\ OneAnswer(messages')
        /\ \A q \in Requests : q # r => Of(messages', q) \subseteq Of(messages, q)
    BY DEF Sent, Listed
  <1>8. disturbed \subseteq disturbed' /\ disturbed' \subseteq Requests
    BY <1>1, <1>3 DEF TypeInv, InFlight
  <1>9. TypeInv'
    <2>1. contextId' \in Requests \union {None} /\ controller' \in Requests \union {None}
      BY <1>1 DEF TypeInv, Sent
    <2>2. isStreaming' \in BOOLEAN /\ bubble' \in [Requests -> [status : Statuses, streaming : BOOLEAN]]
      BY DEF Sent
    <2>3. /\ events' \in [Requests -> 0 .. MaxEvents] /\ said' \in [Requests -> Said]
          /\ aborted' \subseteq Requests
      BY <1>1, <1>3 DEF TypeInv
    <2> QED BY <1>5, <1>7, <1>8, <2>1, <2>2, <2>3 DEF TypeInv
  <1>10. \A q \in Requests : RequestInv(q)'
    <2>1. ASSUME NEW q \in Requests, q # r PROVE RequestInv(q)'
      <3>1. bubble'[q] = bubble[q]
        BY <2>1 DEF Sent
      <3> QED BY <1>1, <1>3, <1>5, <1>7, <1>8, <2>1, <3>1, Untouched
    <2>2. RequestInv(r)'
      <3>1. bubble'[r].status # "completed" /\ said'[r] \notin Unhappy
        BY <1>2, <1>3 DEF Sent, Unhappy
      <3>2. r \notin aborted' /\ phase'[r] # "unsent"
        BY <1>2, <1>3, <1>5
      <3>3. \/ phase'[r] = "post" /\ Of(messages', r) \subseteq {"bubble"}
            \/ phase'[r] = "plain" /\ Of(messages', r) = {}
            \/ phase'[r] = "done" /\ "bubble" \notin Of(messages', r)
        BY DEF Sent
      <3> QED BY <3>1, <3>2, <3>3 DEF RequestInv
    <2> QED BY <2>1, <2>2
  <1>11. GateInv'
    <2>1. isStreaming' => phase'[r] \in Running
      BY DEF Sent, Running
    <2>2. ~isStreaming' => \A q \in Requests : phase'[q] \in Running => q \in disturbed'
      BY <1>5, <1>6 DEF Sent, Running
    <2>3. ASSUME NEW q \in Requests, NEW s \in Requests,
                 phase'[q] \in Running, phase'[s] \in Running, q # s
          PROVE  q \in disturbed'
      BY <1>5, <1>6, <2>3
    <2> QED BY <2>1, <2>2, <2>3 DEF GateInv
  <1>12. ControllerIsLive'
    <2>1. CASE phase'[r] = "post" /\ controller' = r
      <3>1. \A q \in Requests : q > r => phase'[q] = "unsent"
        BY <1>2, <1>5, RequestsAreNumbers
      <3> QED BY <1>2, <1>3, <2>1, <3>1 DEF ControllerIsLive
    <2>2. CASE phase'[r] \in {"plain", "done"} /\ controller' = controller
      <3> SUFFICES ASSUME controller # None
                   PROVE  /\ phase'[controller] \in {"post", "read", "fallback"}
                          /\ controller \notin aborted'
                          /\ \A q \in Requests : q > controller => phase'[q] \notin {"post", "read", "fallback"}
        BY <2>2 DEF ControllerIsLive
      <3>1. controller \in Requests /\ controller # r
        BY <1>2, RequestsAreNumbers
      <3>2. /\ phase[controller] \in {"post", "read", "fallback"} /\ controller \notin aborted
            /\ \A q \in Requests : q > controller => phase[q] \notin {"post", "read", "fallback"}
        BY <1>1 DEF ControllerIsLive
      <3> QED BY <1>3, <1>5, <2>2, <3>1, <3>2
    <2> QED BY <2>1, <2>2 DEF Sent
  <1> QED BY <1>7, <1>9, <1>10, <1>11, <1>12 DEF ChatInv

\* A step that only takes messages away, adds one of no request, or notes
\* that the user disturbed requests.
LEMMA QuietKeeps ==
    ASSUME ChatInv, messages' \in Seq(Entries), Len(messages') <= Cap, OneAnswer(messages'),
           \A q \in Requests : Of(messages', q) \subseteq Of(messages, q),
           UNCHANGED <<bubble, isStreaming, contextId, controller, calls, said>>,
           disturbed \subseteq disturbed', disturbed' \subseteq Requests
    PROVE  ChatInv'
  <1>1. /\ bubble' = bubble /\ isStreaming' = isStreaming /\ contextId' = contextId
        /\ controller' = controller /\ phase' = phase /\ events' = events
        /\ aborted' = aborted /\ said' = said
    BY DEF calls
  <1>2. TypeInv'
    BY <1>1 DEF ChatInv, TypeInv
  <1>3. \A q \in Requests : RequestInv(q)'
    BY <1>1, Untouched DEF ChatInv
  <1>4. GateInv'
    BY <1>1 DEF ChatInv, GateInv
  <1>5. ControllerIsLive'
    BY <1>1 DEF ChatInv, ControllerIsLive
  <1> QED BY <1>2, <1>3, <1>4, <1>5 DEF ChatInv

LEMMA RetryWhileStreamingKeeps ==
    ASSUME ChatInv, NEW i \in 1 .. Cap, RetryWhileStreaming(i)
    PROVE  ChatInv'
  <1>1. messages \in Seq(Entries) /\ Len(messages) <= Cap /\ OneAnswer(messages) /\ disturbed \subseteq Requests
    BY DEF ChatInv, TypeInv
  <1>2. i \in DOMAIN messages /\ messages' = SubSeq(messages, 1, i - 1)
    BY DEF RetryWhileStreaming
  <1>3. i - 1 \in 0 .. Len(messages) /\ Len(messages) \in Nat /\ Cap \in Nat /\ i \in Nat
    BY <1>1, <1>2, CapAssumption
  <1>4. /\ messages' \in Seq(Entries) /\ PartOf(messages', messages)
        /\ Len(messages') = IF 1 <= i - 1 THEN i - 1 - 1 + 1 ELSE 0
    BY <1>1, <1>2, <1>3, StretchIsPart
  <1>5. Len(messages') <= Cap
    BY <1>1, <1>3, <1>4
  <1>6. OneAnswer(messages') /\ \A q \in Requests : Of(messages', q) \subseteq Of(messages, q)
    BY <1>1, <1>4 DEF PartOf
  <1>7. disturbed' = disturbed \union InFlight
    BY DEF RetryWhileStreaming
  <1>8. disturbed \subseteq disturbed' /\ disturbed' \subseteq Requests
    BY <1>1, <1>7 DEF InFlight
  <1> QED BY <1>4, <1>5, <1>6, <1>8, QuietKeeps DEF RetryWhileStreaming

LEMMA SendRawInvalidKeeps ==
    ASSUME ChatInv, SendRawInvalid
    PROVE  ChatInv'
  <1>1. messages \in Seq(Entries) /\ OneAnswer(messages) /\ PartOf(messages, messages) /\ disturbed \subseteq Requests
    BY DEF ChatInv, TypeInv, PartOf
  <1>2. messages' = Kept(Append(messages, <<None, "error">>))
    BY DEF SendRawInvalid
  <1>3. Listed(messages', messages, None, {"error"})
    BY <1>1, <1>2, AnswerAdded
  <1>4. /\ messages' \in Seq(Entries) /\ Len(messages') <= Cap /\ OneAnswer(messages')
        /\ \A q \in Requests : Of(messages', q) \subseteq Of(messages, q)
    BY <1>3, RequestsAreNumbers DEF Listed
  <1> QED BY <1>1, <1>4, QuietKeeps DEF SendRawInvalid, history

LEMMA ClearChatKeeps ==
    ASSUME ChatInv, ClearChat
    PROVE  ChatInv'
  <1>1. /\ messages' = <<>> /\ contextId' = None /\ isStreaming' = FALSE
        /\ disturbed' = disturbed \union InFlight
        /\ bubble' = bubble /\ controller' = controller /\ said' = said
        /\ phase' = phase /\ events' = events /\ aborted' = aborted
    BY DEF ClearChat, calls
  <1>2. DOMAIN messages' = {} /\ messages' \in Seq(Entries) /\ Len(messages') = 0
    BY <1>1
  <1>3. OneAnswer(messages') /\ \A q \in Requests : Of(messages', q) = {}
    BY <1>2 DEF OneAnswer, Of
  <1>4. TypeInv'
    <2>1. Len(messages') <= Cap
      BY <1>2, CapAssumption
    <2>2. disturbed' \subseteq Requests
      BY <1>1 DEF InFlight, ChatInv, TypeInv
    <2> QED BY <1>1, <1>2, <2>1, <2>2 DEF ChatInv, TypeInv
  <1>5. ASSUME NEW q \in Requests PROVE RequestInv(q)'
    <2>1. RequestInv(q)
      BY DEF ChatInv
    <2> QED BY <1>1, <1>3, <2>1, Untouched
  <1>6. GateInv'
    BY <1>1 DEF GateInv, InFlight
  <1>7. ControllerIsLive'
    BY <1>1 DEF ChatInv, ControllerIsLive
  <1> QED BY <1>3, <1>4, <1>5, <1>6, <1>7 DEF ChatInv

LEMMA CancelStreamKeeps ==
    ASSUME ChatInv, CancelStream
    PROVE  ChatInv'
  <1>1. /\ controller # None /\ aborted' = aborted \union {controller} /\ controller' = None
        /\ messages' = messages /\ bubble' = bubble /\ isStreaming' = isStreaming
        /\ contextId' = contextId /\ phase' = phase /\ events' = events
        /\ said' = said /\ disturbed' = disturbed
    BY DEF CancelStream, history
  <1>2. controller \in Requests /\ phase[controller] \in {"post", "read", "fallback"}
    BY <1>1 DEF ChatInv, TypeInv, ControllerIsLive
  <1>3. TypeInv'
    BY <1>1, <1>2 DEF ChatInv, TypeInv
  <1>4. ASSUME NEW q \in Requests PROVE RequestInv(q)'
    <2>1. RequestInv(q)
      BY DEF ChatInv
    <2>2. CASE q # controller
      BY <1>1, <2>1, <2>2, Untouched
    <2>3. CASE q = controller
      BY <1>1, <1>2, <2>1, <2>3 DEF RequestInv
    <2> QED BY <2>2, <2>3
  <1>5. GateInv'
    BY <1>1 DEF ChatInv, GateInv
  <1>6. ControllerIsLive' /\ OneAnswer(messages')
    BY <1>1 DEF ChatInv, ControllerIsLive
  <1> QED BY <1>3, <1>4, <1>5, <1>6 DEF ChatInv

-----------------------------------------------------------------------------
(* The network's steps.                                                    *)

LEMMA BubbleSet ==
    ASSUME TypeInv, NEW r \in Requests, NEW b \in [status : Statuses, streaming : BOOLEAN],
           SetBubble(r, b)
    PROVE  /\ bubble' \in [Requests -> [status : Statuses, streaming : BOOLEAN]]
           /\ \A q \in Requests : q # r => bubble'[q] = bubble[q]
           /\ "bubble" \in Of(messages, r) => bubble'[r] = b
           /\ "bubble" \notin Of(messages, r) => bubble'[r] = bubble[r]
  <1>1. Shown(messages, r, "bubble") <=> "bubble" \in Of(messages, r)
    BY ShownIsAnswer DEF TypeInv
  <1>2. bubble' = IF Shown(messages, r, "bubble") THEN [bubble EXCEPT ![r] = b] ELSE bubble
    BY DEF SetBubble
  <1> QED BY <1>1, <1>2 DEF TypeInv

\* An event is read: what is left to show is what holds of its request.
LEMMA EventKeeps ==
    ASSUME ChatInv, NEW r \in Requests, MayReport(r), Read(r),
           UNCHANGED <<messages, isStreaming, controller, phase, aborted, disturbed>>,
           contextId' \in {r, contextId},
           bubble' \in [Requests -> [status : Statuses, streaming : BOOLEAN]],
           \A q \in Requests : q # r => bubble'[q] = bubble[q],
           said' \in [Requests -> Said],
           \A q \in Requests : q # r => said'[q] = said[q],
           RequestInv(r)'
    PROVE  ChatInv'
  <1>1. phase[r] = "read" /\ events[r] < MaxEvents /\ events' = [events EXCEPT ![r] = @ + 1]
    BY DEF MayReport, Read
  <1>2. events' \in [Requests -> 0 .. MaxEvents]
    BY <1>1, MaxEventsAssumption DEF ChatInv, TypeInv
  <1>3. TypeInv'
    BY <1>2 DEF ChatInv, TypeInv
  <1>4. \A q \in Requests : RequestInv(q)'
    <2>1. ASSUME NEW q \in Requests, q # r PROVE RequestInv(q)'
      BY <2>1, Untouched DEF ChatInv
    <2> QED BY <2>1
  <1>5. GateInv' /\ ControllerIsLive' /\ OneAnswer(messages')
    BY DEF ChatInv, GateInv, ControllerIsLive
  <1> QED BY <1>3, <1>4, <1>5 DEF ChatInv

LEMMA StatusUpdateKeeps ==
    ASSUME ChatInv, NEW r \in Requests, NEW state \in {"working", "completed"} \union Unhappy,
           StatusUpdate(r, state)
    PROVE  ChatInv'
  <1> DEFINE b == [bubble[r] EXCEPT !.status = state]
  <1>1. /\ MayReport(r) /\ Read(r) /\ SetBubble(r, b) /\ contextId' = r
        /\ said' = [said EXCEPT ![r] = state]
        /\ messages' = messages /\ isStreaming' = isStreaming /\ controller' = controller
        /\ phase' = phase /\ aborted' = aborted /\ disturbed' = disturbed
    BY DEF StatusUpdate
  <1>2. TypeInv /\ RequestInv(r) /\ phase[r] = "read" /\ said[r] \in {"nothing", "working"}
    BY <1>1 DEF ChatInv, MayReport
  <1>3. b \in [status : Statuses, streaming : BOOLEAN] /\ b.status = state /\ b.streaming = bubble[r].streaming
    BY <1>2 DEF TypeInv, Statuses
  <1> HIDE DEF b
  <1>4. /\ bubble' \in [Requests -> [status : Statuses, streaming : BOOLEAN]]
        /\ \A q \in Requests : q # r => bubble'[q] = bubble[q]
        /\ "bubble" \in Of(messages, r) => bubble'[r] = b
        /\ "bubble" \notin Of(messages, r) => bubble'[r] = bubble[r]
    BY <1>1, <1>2, <1>3, BubbleSet
  <1>5. /\ said' \in [Requests -> Said] /\ said'[r] = state
        /\ \A q \in Requests : q # r => said'[q] = said[q]
    BY <1>1, <1>2 DEF TypeInv, Said
  <1>6. RequestInv(r)'
    <2>1. CASE "bubble" \in Of(messages, r)
      <3>1. bubble'[r].status = state
        BY <1>3, <1>4, <2>1
      <3> QED BY <1>1, <1>2, <1>5, <3>1 DEF RequestInv, Unhappy
    <2>2. CASE "bubble" \notin Of(messages, r)
      <3>1. bubble'[r].status # "completed"
        BY <1>2, <1>4, <2>2 DEF RequestInv
      <3> QED BY <1>1, <1>2, <2>2, <3>1 DEF RequestInv
    <2> QED BY <2>1, <2>2
  <1> QED BY <1>1, <1>4, <1>5, <1>6, EventKeeps

\* An artifact, a message, or data that is not JSON.
LEMMA SilentEventKeeps ==
    ASSUME ChatInv, NEW r \in Requests, ArtifactUpdate(r) \/ OtherEvent(r)
    PROVE  ChatInv'
  <1>1. /\ MayReport(r) /\ Read(r) /\ contextId' \in {r, contextId}
        /\ messages' = messages /\ bubble' = bubble /\ isStreaming' = isStreaming /\ controller' = controller
        /\ phase' = phase /\ aborted' = aborted /\ said' = said /\ disturbed' = disturbed
    BY DEF ArtifactUpdate, OtherEvent, store, history
  <1>2. TypeInv /\ RequestInv(r)
    BY DEF ChatInv
  <1>3. RequestInv(r)'
    BY <1>1, <1>2, Untouched
  <1> QED BY <1>1, <1>2, <1>3, EventKeeps DEF TypeInv

LEMMA TaskEventKeeps ==
    ASSUME ChatInv, NEW r \in Requests, NEW state \in {"working", "completed"} \union Unhappy,
           NEW withParts \in BOOLEAN, TaskEvent(r, state, withParts)
    PROVE  ChatInv'
  <1> DEFINE b == [status |-> IF withParts THEN state ELSE bubble[r].status, streaming |-> FALSE]
  <1>1. /\ MayReport(r) /\ Read(r) /\ SetBubble(r, b) /\ contextId' \in {r, contextId}
        /\ said' = [said EXCEPT ![r] = state]
        /\ messages' = messages /\ isStreaming' = isStreaming /\ controller' = controller
        /\ phase' = phase /\ aborted' = aborted /\ disturbed' = disturbed
    BY DEF TaskEvent
  <1>2. TypeInv /\ RequestInv(r) /\ phase[r] = "read" /\ said[r] \in {"nothing", "working"}
    BY <1>1 DEF ChatInv, MayReport
  <1>3. /\ b \in [status : Statuses, streaming : BOOLEAN] /\ b.streaming = FALSE
        /\ b.status \in {state, bubble[r].status}
    BY <1>2 DEF TypeInv, Statuses
  <1> HIDE DEF b
  <1>4. /\ bubble' \in [Requests -> [status : Statuses, streaming : BOOLEAN]]
        /\ \A q \in Requests : q # r => bubble'[q] = bubble[q]
        /\ "bubble" \in Of(messages, r) => bubble'[r] = b
        /\ "bubble" \notin Of(messages, r) => bubble'[r] = bubble[r]
    BY <1>1, <1>2, <1>3, BubbleSet
  <1>5. /\ said' \in [Requests -> Said] /\ said'[r] = state
        /\ \A q \in Requests : q # r => said'[q] = said[q]
    BY <1>1, <1>2 DEF TypeInv, Said
  <1>6. bubble[r].status # "completed"
    BY <1>2 DEF RequestInv
  <1>7. RequestInv(r)'
    <2>1. CASE "bubble" \in Of(messages, r)
      <3>1. /\ bubble'[r].streaming = FALSE
            /\ bubble'[r].status = "completed" => state = "completed"
        BY <1>3, <1>4, <1>6, <2>1
      <3> QED BY <1>1, <1>2, <1>5, <3>1 DEF RequestInv, Unhappy
    <2>2. CASE "bubble" \notin Of(messages, r)
      BY <1>1, <1>2, <1>4, <1>6, <2>2 DEF RequestInv
    <2> QED BY <2>1, <2>2
  <1> QED BY <1>1, <1>4, <1>5, <1>7, EventKeeps

LEMMA ErrorEventKeeps ==
    ASSUME ChatInv, NEW r \in Requests, ErrorEvent(r)
    PROVE  ChatInv'
  <1> DEFINE b == [status |-> "failed", streaming |-> FALSE]
  <1>1. /\ MayReport(r) /\ Read(r) /\ SetBubble(r, b) /\ contextId' = contextId
        /\ said' = [said EXCEPT ![r] = "failed"]
        /\ messages' = messages /\ isStreaming' = isStreaming /\ controller' = controller
        /\ phase' = phase /\ aborted' = aborted /\ disturbed' = disturbed
    BY DEF ErrorEvent
  <1>2. TypeInv /\ RequestInv(r) /\ phase[r] = "read" /\ said[r] \in {"nothing", "working"}
    BY <1>1 DEF ChatInv, MayReport
  <1>3. b \in [status : Statuses, streaming : BOOLEAN] /\ b.status = "failed" /\ b.streaming = FALSE
    BY DEF Statuses, Unhappy
  <1> HIDE DEF b
  <1>4. /\ bubble' \in [Requests -> [status : Statuses, streaming : BOOLEAN]]
        /\ \A q \in Requests : q # r => bubble'[q] = bubble[q]
        /\ "bubble" \in Of(messages, r) => bubble'[r] = b
        /\ "bubble" \notin Of(messages, r) => bubble'[r] = bubble[r]
    BY <1>1, <1>2, <1>3, BubbleSet
  <1>5. /\ said' \in [Requests -> Said]
        /\ \A q \in Requests : q # r => said'[q] = said[q]
    BY <1>1, <1>2 DEF TypeInv, Said, Unhappy
  <1>6. bubble'[r].status # "completed"
    BY <1>2, <1>3, <1>4 DEF RequestInv
  <1>7. RequestInv(r)'
    BY <1>1, <1>2, <1>3, <1>4, <1>6 DEF RequestInv
  <1> QED BY <1>1, <1>4, <1>5, <1>7, EventKeeps

LEMMA StreamOpensKeeps ==
    ASSUME ChatInv, NEW r \in Requests, StreamOpens(r)
    PROVE  ChatInv'
  <1>1. /\ phase[r] = "post" /\ phase' = [phase EXCEPT ![r] = "read"] /\ r \notin aborted
        /\ messages' = messages /\ bubble' = bubble /\ isStreaming' = isStreaming
        /\ contextId' = contextId /\ controller' = controller /\ events' = events
        /\ aborted' = aborted /\ said' = said /\ disturbed' = disturbed
    BY DEF StreamOpens, Listening, store, history
  <1>2. /\ phase' \in [Requests -> Phases] /\ phase'[r] = "read"
        /\ \A q \in Requests : q # r => phase'[q] = phase[q]
    BY <1>1 DEF ChatInv, TypeInv, Phases, Running
  <1>3. TypeInv'
    BY <1>1, <1>2 DEF ChatInv, TypeInv
  <1>4. ASSUME NEW q \in Requests PROVE RequestInv(q)'
    <2>1. RequestInv(q)
      BY DEF ChatInv
    <2>2. CASE q # r
      BY <1>1, <1>2, <2>1, <2>2, Untouched
    <2>3. CASE q = r
      BY <1>1, <1>2, <2>1, <2>3 DEF RequestInv, Running
    <2> QED BY <2>2, <2>3
  <1>5. \A q \in Requests : phase'[q] \in Running <=> phase[q] \in Running
    BY <1>1, <1>2 DEF Running
  <1>6. GateInv'
    BY <1>1, <1>5 DEF ChatInv, GateInv
  <1>7. \A q \in Requests : phase'[q] \in {"post", "read", "fallback"} <=> phase[q] \in {"post", "read", "fallback"}
    BY <1>1, <1>2
  <1>8. ControllerIsLive'
    BY <1>1, <1>7 DEF ChatInv, TypeInv, ControllerIsLive
  <1>9. OneAnswer(messages')
    BY <1>1 DEF ChatInv
  <1> QED BY <1>3, <1>4, <1>6, <1>8, <1>9 DEF ChatInv

\* A request ends: what is left to show is what holds of it.
LEMMA EndKeeps ==
    ASSUME ChatInv, NEW r \in Requests, phase[r] \in Running, Finish(r),
           UNCHANGED <<aborted, said, disturbed>>,
           contextId' \in {r, contextId},
           messages' \in Seq(Entries), Len(messages') <= Cap, OneAnswer(messages'),
           \A q \in Requests : q # r => Of(messages', q) \subseteq Of(messages, q),
           bubble' \in [Requests -> [status : Statuses, streaming : BOOLEAN]],
           \A q \in Requests : q # r => bubble'[q] = bubble[q],
           "bubble" \in Of(messages', r) =>
             /\ bubble'[r].streaming = FALSE
             /\ r \in aborted => bubble'[r].status \in {"canceled", "failed"},
           bubble'[r].status = "completed" => said[r] \notin Unhappy
    PROVE  ChatInv'
  <1>1. TypeInv /\ GateInv /\ ControllerIsLive /\ RequestInv(r)
    BY DEF ChatInv
  <1>2. /\ GateInv' /\ ControllerIsLive'
        /\ phase' = [phase EXCEPT ![r] = "done"]
        /\ phase' \in [Requests -> Phases] /\ events' \in [Requests -> 0 .. MaxEvents]
        /\ isStreaming' \in BOOLEAN /\ controller' \in Requests \union {None}
    BY <1>1, FinishKeeps
  <1>3. phase'[r] = "done" /\ \A q \in Requests : q # r => phase'[q] = phase[q]
    BY <1>1, <1>2 DEF TypeInv
  <1>4. TypeInv'
    BY <1>1, <1>2 DEF TypeInv
  <1>5. ASSUME NEW q \in Requests PROVE RequestInv(q)'
    <2>1. CASE q # r
      BY <1>3, <2>1, Untouched DEF ChatInv
    <2>2. RequestInv(r)'
      BY <1>3 DEF RequestInv, Running
    <2> QED BY <2>1, <2>2
  <1> QED BY <1>2, <1>4, <1>5 DEF ChatInv

\* A stream ends in a bubble that is written once more.
LEMMA BubbleEnds ==
    ASSUME ChatInv, NEW r \in Requests, phase[r] \in {"post", "read"},
           NEW b \in [status : Statuses, streaming : BOOLEAN], SetBubble(r, b), Finish(r),
           UNCHANGED <<messages, contextId, aborted, history>>,
           b.streaming = FALSE,
           r \in aborted => b.status \in {"canceled", "failed"},
           "bubble" \in Of(messages, r) /\ b.status = "completed" => said[r] \notin Unhappy
    PROVE  ChatInv'
  <1>1. TypeInv /\ OneAnswer(messages) /\ RequestInv(r)
    BY DEF ChatInv
  <1>2. /\ bubble' \in [Requests -> [status : Statuses, streaming : BOOLEAN]]
        /\ \A q \in Requests : q # r => bubble'[q] = bubble[q]
        /\ "bubble" \in Of(messages, r) => bubble'[r] = b
        /\ "bubble" \notin Of(messages, r) => bubble'[r] = bubble[r]
    BY <1>1, BubbleSet
  <1>3. bubble'[r].status = "completed" => said[r] \notin Unhappy
    BY <1>1, <1>2 DEF RequestInv
  <1>4. messages' = messages /\ said' = said /\ disturbed' = disturbed
    BY DEF history
  <1>5. messages' \in Seq(Entries) /\ Len(messages') <= Cap
    BY <1>1, <1>4 DEF TypeInv
  <1>6. phase[r] \in Running
    BY DEF Running
  <1> QED BY <1>1, <1>2, <1>3, <1>4, <1>5, <1>6, EndKeeps

LEMMA StreamEndsKeeps ==
    ASSUME ChatInv, NEW r \in Requests, StreamEnds(r)
    PROVE  ChatInv'
  <1> DEFINE b == IF bubble[r].streaming
                  THEN [bubble[r] EXCEPT !.streaming = FALSE,
                          !.status = IF @ = "working" THEN "completed" ELSE @]
                  ELSE bubble[r]
  <1>1. /\ phase[r] = "read" /\ r \notin aborted /\ SetBubble(r, b) /\ Finish(r)
        /\ UNCHANGED <<messages, contextId, aborted, history>>
    BY DEF StreamEnds, Listening
  <1>2. bubble[r] \in [status : Statuses, streaming : BOOLEAN] /\ RequestInv(r)
    BY DEF ChatInv, TypeInv
  <1>3. /\ b \in [status : Statuses, streaming : BOOLEAN] /\ b.streaming = FALSE
        /\ b.status = "completed" =>
             bubble[r].status = "completed" \/ (bubble[r].status = "working" /\ bubble[r].streaming)
    BY <1>2 DEF Statuses
  <1> HIDE DEF b
  <1>4. "bubble" \in Of(messages, r) /\ b.status = "completed" => said[r] \notin Unhappy
    BY <1>2, <1>3 DEF RequestInv
  <1> QED BY <1>1, <1>3, <1>4, BubbleEnds

LEMMA StreamBreaksKeeps ==
    ASSUME ChatInv, NEW r \in Requests, StreamBreaks(r)
    PROVE  ChatInv'
  <1>1. /\ phase[r] = "read" /\ SetBubble(r, Failed(bubble[r])) /\ Finish(r)
        /\ UNCHANGED <<messages, contextId, aborted, history>>
    BY DEF StreamBreaks
  <1>2. bubble[r] \in [status : Statuses, streaming : BOOLEAN]
    BY DEF ChatInv, TypeInv
  <1>3. /\ Failed(bubble[r]) \in [status : Statuses, streaming : BOOLEAN]
        /\ Failed(bubble[r]).streaming = FALSE /\ Failed(bubble[r]).status = "failed"
    BY <1>2 DEF Failed, Statuses, Unhappy
  <1> QED BY <1>1, <1>3, BubbleEnds

LEMMA StreamAbortedKeeps ==
    ASSUME ChatInv, NEW r \in Requests, StreamAborted(r)
    PROVE  ChatInv'
  <1> DEFINE b == IF events[r] > 0 THEN Failed(bubble[r])
                  ELSE [bubble[r] EXCEPT !.status = "canceled", !.streaming = FALSE]
  <1>1. /\ phase[r] \in {"post", "read"} /\ SetBubble(r, b) /\ Finish(r)
        /\ UNCHANGED <<messages, contextId, aborted, history>>
    BY DEF StreamAborted
  <1>2. bubble[r] \in [status : Statuses, streaming : BOOLEAN]
    BY DEF ChatInv, TypeInv
  <1>3. /\ b \in [status : Statuses, streaming : BOOLEAN] /\ b.streaming = FALSE
        /\ b.status \in {"canceled", "failed"}
    BY <1>2 DEF Failed, Statuses, Unhappy
  <1> HIDE DEF b
  <1> QED BY <1>1, <1>3, BubbleEnds

LEMMA StreamRefusedKeeps ==
    ASSUME ChatInv, NEW r \in Requests, StreamRefused(r)
    PROVE  ChatInv'
  <1>1. TypeInv /\ OneAnswer(messages) /\ RequestInv(r) /\ messages \in Seq(Entries)
    BY DEF ChatInv, TypeInv
  <1>2. /\ phase[r] \in {"post", "read"} /\ r \notin aborted
        /\ bubble' = bubble /\ contextId' = contextId /\ aborted' = aborted
        /\ said' = said /\ disturbed' = disturbed
    BY DEF StreamRefused, Listening, history
  <1>3. Shown(messages, r, "bubble") <=> "bubble" \in Of(messages, r)
    BY <1>1, ShownIsAnswer
  <1>4. CASE ~Shown(messages, r, "bubble")
    <2>1. Finish(r) /\ messages' = messages
      BY <1>4 DEF StreamRefused
    <2>2. bubble'[r].status = "completed" => said[r] \notin Unhappy
      BY <1>1, <1>2 DEF RequestInv
    <2>3. phase[r] \in Running
      BY <1>2 DEF Running
    <2> QED BY <1>1, <1>2, <1>3, <1>4, <2>1, <2>2, <2>3, EndKeeps DEF TypeInv
  <1>5. CASE Shown(messages, r, "bubble")
    <2>1. /\ messages' = Without(messages, <<r, "bubble">>)
          /\ phase' = [phase EXCEPT ![r] = "fallback"]
          /\ isStreaming' = isStreaming /\ controller' = controller /\ events' = events
      BY <1>5 DEF StreamRefused
    <2>2. /\ messages' \in Seq(Entries) /\ Len(messages') = Len(messages) - 1
          /\ PartOf(messages', messages) /\ Of(messages', r) = {}
      BY <1>1, <1>5, <2>1, BubbleGone
    <2>3. /\ OneAnswer(messages') /\ Len(messages') <= Cap
          /\ \A q \in Requests : Of(messages', q) \subseteq Of(messages, q)
      <3>1. Len(messages) \in Nat /\ Len(messages) <= Cap /\ Cap \in Nat
        BY <1>1, CapAssumption DEF TypeInv
      <3>2. Len(messages') <= Cap
        BY <2>2, <3>1
      <3> QED BY <1>1, <2>2, <3>2 DEF PartOf
    <2>4. /\ phase' \in [Requests -> Phases] /\ phase'[r] = "fallback"
          /\ \A q \in Requests : q # r => phase'[q] = phase[q]
      BY <1>1, <2>1 DEF TypeInv, Phases, Running
    <2>5. TypeInv'
      BY <1>1, <1>2, <2>1, <2>2, <2>3, <2>4 DEF TypeInv
    <2>6. ASSUME NEW q \in Requests PROVE RequestInv(q)'
      <3>1. RequestInv(q)
        BY DEF ChatInv
      <3>2. CASE q # r
        BY <1>2, <2>1, <2>3, <2>4, <3>1, <3>2, Untouched
      <3>3. CASE q = r
        BY <1>2, <2>2, <2>4, <3>1, <3>3 DEF RequestInv, Running
      <3> QED BY <3>2, <3>3
    <2>7. \A q \in Requests : phase'[q] \in Running <=> phase[q] \in Running
      BY <1>2, <2>4 DEF Running
    <2>8. GateInv'
      BY <1>2, <2>1, <2>7 DEF ChatInv, GateInv
    <2>9. \A q \in Requests : phase'[q] \in {"post", "read", "fallback"} <=> phase[q] \in {"post", "read", "fallback"}
      BY <1>2, <2>4
    <2>10. ControllerIsLive'
      BY <1>2, <2>1, <2>9 DEF ChatInv, TypeInv, ControllerIsLive
    <2> QED BY <2>3, <2>5, <2>6, <2>8, <2>10 DEF ChatInv
  <1> QED BY <1>4, <1>5

LEMMA PlainAnswersKeeps ==
    ASSUME ChatInv, NEW r \in Requests, PlainAnswers(r)
    PROVE  ChatInv'
  <1>1. TypeInv /\ OneAnswer(messages) /\ RequestInv(r) /\ messages \in Seq(Entries)
        /\ Len(messages) <= Cap /\ PartOf(messages, messages)
    BY DEF ChatInv, TypeInv, PartOf
  <1>2. /\ phase[r] \in {"plain", "fallback"} /\ Finish(r) /\ contextId' \in {r, contextId}
        /\ bubble' = bubble /\ aborted' = aborted
        /\ said' = said /\ disturbed' = disturbed
    BY DEF PlainAnswers, history
  <1>3. Of(messages, r) = {}
    BY <1>1, <1>2 DEF RequestInv
  <1>4. /\ messages' \in Seq(Entries) /\ Len(messages') <= Cap /\ OneAnswer(messages')
        /\ \A q \in Requests : q # r => Of(messages', q) \subseteq Of(messages, q)
        /\ "bubble" \notin Of(messages', r)
    <2>1. CASE messages' = messages
      BY <1>1, <1>3, <2>1
    <2>2. ASSUME NEW k \in {"reply", "error"}, messages' = Kept(Append(messages, <<r, k>>))
          PROVE  <1>4
      <3>1. Listed(messages', messages, r, {k})
        BY <1>1, <1>3, <2>2, AnswerAdded
      <3> QED BY <1>3, <3>1 DEF Listed
    <2>3. messages' = messages \/ \E k \in {"reply", "error"} : messages' = Kept(Append(messages, <<r, k>>))
      BY DEF PlainAnswers
    <2> QED BY <2>1, <2>2, <2>3
  <1>5. bubble'[r].status = "completed" => said[r] \notin Unhappy
    BY <1>1, <1>2 DEF RequestInv
  <1>6. phase[r] \in Running
    BY <1>2 DEF Running
  <1> QED BY <1>1, <1>2, <1>4, <1>5, <1>6, EndKeeps DEF TypeInv

-----------------------------------------------------------------------------
(* Every step keeps the invariant.                                         *)

LEMMA SendKeeps ==
    ASSUME ChatInv, NEW r \in Requests, NEW kind \in Kinds,
           NEW list \in Seq(Entries), PartOf(list, messages), Send(list, r, kind)
    PROVE  ChatInv'
  <1>1. Sent(r)
    BY SendIsSent
  <1>2. /\ \A q \in Requests : phase[q] = "unsent" <=> q >= r
        /\ Disturb(r) /\ UNCHANGED <<events, aborted, said>>
    BY DEF Send
  <1> QED BY <1>1, <1>2, SentKeeps

LEMMA UserKeeps == ChatInv /\ User => ChatInv'
  <1> SUFFICES ASSUME ChatInv, User PROVE ChatInv'
    OBVIOUS
  <1>1. messages \in Seq(Entries) /\ PartOf(messages, messages)
    BY DEF ChatInv, TypeInv, PartOf
  <1>2. ASSUME NEW r \in Requests, NEW kind \in Kinds, SendMessage(r, kind) \/ SendRaw(r, kind)
        PROVE  ChatInv'
    <2>1. Send(messages, r, kind)
      BY <1>2 DEF SendMessage, SendRaw
    <2> QED BY <1>1, <2>1, SendKeeps
  <1>3. ASSUME NEW r \in Requests, NEW kind \in Kinds, NEW i \in 1 .. Cap, Retry(i, r, kind)
        PROVE  ChatInv'
    <2> DEFINE list == SubSeq(messages, 1, i - 1)
    <2>1. i \in DOMAIN messages /\ Send(list, r, kind)
      BY <1>3 DEF Retry
    <2>2. i - 1 \in 0 .. Len(messages) /\ 1 \in Nat \ {0}
      BY <1>1, <2>1
    <2>3. list \in Seq(Entries) /\ PartOf(list, messages)
      BY <1>1, <2>2, StretchIsPart
    <2> HIDE DEF list
    <2> QED BY <2>1, <2>3, SendKeeps
  <1>4. ASSUME NEW i \in 1 .. Cap, RetryWhileStreaming(i) PROVE ChatInv'
    BY <1>4, RetryWhileStreamingKeeps
  <1>5. CASE SendRawInvalid
    BY <1>5, SendRawInvalidKeeps
  <1>6. CASE ClearChat
    BY <1>6, ClearChatKeeps
  <1>7. CASE CancelStream
    BY <1>7, CancelStreamKeeps
  <1> QED BY <1>2, <1>3, <1>4, <1>5, <1>6, <1>7 DEF User

LEMMA NetworkKeeps ==
    ASSUME ChatInv, NEW r \in Requests, Report(r) \/ Network(r)
    PROVE  ChatInv'
  <1>1. CASE \E state \in {"working", "completed"} \union Unhappy : StatusUpdate(r, state)
    BY <1>1, StatusUpdateKeeps
  <1>2. CASE \E state \in {"working", "completed"} \union Unhappy, withParts \in BOOLEAN :
               TaskEvent(r, state, withParts)
    BY <1>2, TaskEventKeeps
  <1>3. CASE ArtifactUpdate(r) \/ OtherEvent(r)
    BY <1>3, SilentEventKeeps
  <1>4. CASE ErrorEvent(r)
    BY <1>4, ErrorEventKeeps
  <1>5. CASE StreamOpens(r)
    BY <1>5, StreamOpensKeeps
  <1>6. CASE StreamRefused(r)
    BY <1>6, StreamRefusedKeeps
  <1>7. CASE StreamEnds(r)
    BY <1>7, StreamEndsKeeps
  <1>8. CASE StreamBreaks(r)
    BY <1>8, StreamBreaksKeeps
  <1>9. CASE StreamAborted(r)
    BY <1>9, StreamAbortedKeeps
  <1>10. CASE PlainAnswers(r)
    BY <1>10, PlainAnswersKeeps
  <1> QED BY <1>1, <1>2, <1>3, <1>4, <1>5, <1>6, <1>7, <1>8, <1>9, <1>10 DEF Report, Network

LEMMA ChatInvNext == ChatInv /\ [Next]_vars => ChatInv'
  <1> SUFFICES ASSUME ChatInv, [Next]_vars PROVE ChatInv'
    OBVIOUS
  <1>1. CASE UNCHANGED vars
    <2>1. /\ messages' = messages /\ bubble' = bubble /\ isStreaming' = isStreaming
          /\ contextId' = contextId /\ controller' = controller /\ UNCHANGED calls
          /\ said' = said /\ disturbed' = disturbed
      BY <1>1 DEF vars, store, history
    <2>2. messages' \in Seq(Entries) /\ Len(messages') <= Cap /\ OneAnswer(messages') /\ disturbed' \subseteq Requests
      BY <2>1 DEF ChatInv, TypeInv
    <2> QED BY <2>1, <2>2, QuietKeeps
  <1>2. CASE User
    BY <1>2, UserKeeps
  <1>3. CASE \E r \in Requests : Report(r) \/ Network(r)
    BY <1>3, NetworkKeeps
  <1> QED BY <1>1, <1>2, <1>3 DEF Next

LEMMA ChatIsInvariant == Spec => []ChatInv
  BY ChatInvInit, ChatInvNext, PTL DEF Spec

-----------------------------------------------------------------------------
(* The page's state keeps its types.                                       *)
THEOREM ChatTypeCorrect == Spec => []TypeOK
  <1>1. ASSUME ChatInv PROVE TypeOK
    <2>1. TypeInv
      BY <1>1 DEF ChatInv
    <2>2. \A i \in DOMAIN messages :
            messages[i] \in (Requests \union {None}) \X {"question", "bubble", "reply", "error"}
      BY <2>1 DEF TypeInv, Entries
    <2> QED BY <2>1, <2>2 DEF TypeInv, TypeOK
  <1> QED BY <1>1, ChatIsInvariant, PTL

(* A bubble on the page that spins has a stream behind it, however sends,  *)
(* retries, clears and stops interleave with the streams' callbacks.       *)
THEOREM SpinnersAreServed == Spec => []SpinnerHasStream
  <1>1. ASSUME ChatInv, NEW r \in Requests, Shown(messages, r, "bubble"), bubble[r].streaming
        PROVE  phase[r] \in {"post", "read"}
    <2>1. "bubble" \in Of(messages, r)
      BY <1>1, ShownIsAnswer DEF ChatInv, TypeInv
    <2> QED BY <1>1, <2>1 DEF ChatInv, RequestInv
  <1>2. ChatInv => SpinnerHasStream
    BY <1>1 DEF SpinnerHasStream
  <1> QED BY <1>2, ChatIsInvariant, PTL

(* The send button is enabled when nothing runs, and over a running        *)
(* request only when the user brought that about.                          *)
THEOREM GateIsRight == Spec => []GateMatchesRequests
  <1>1. ChatInv => GateMatchesRequests
    BY DEF ChatInv, GateInv, GateMatchesRequests, InFlight
  <1> QED BY <1>1, ChatIsInvariant, PTL

(* Stop aborts a request that runs, never one that ended or was stopped.   *)
THEOREM StopHitsLiveStream == Spec => []ControllerIsLive
  <1>1. ChatInv => ControllerIsLive
    BY DEF ChatInv
  <1> QED BY <1>1, ChatIsInvariant, PTL

(* A stopped stream ends as canceled or failed.                            *)
THEOREM StoppedStaysStopped == Spec => []StoppedNeverCompletes
  <1>1. ASSUME ChatInv, NEW r \in aborted, Shown(messages, r, "bubble"), phase[r] = "done"
        PROVE  bubble[r].status \in {"canceled", "failed"}
    <2>1. r \in Requests
      BY <1>1 DEF ChatInv, TypeInv
    <2>2. "bubble" \in Of(messages, r)
      BY <1>1, ShownIsAnswer DEF ChatInv, TypeInv
    <2> QED BY <1>1, <2>1, <2>2 DEF ChatInv, RequestInv
  <1>2. ChatInv => StoppedNeverCompletes
    BY <1>1 DEF StoppedNeverCompletes
  <1> QED BY <1>2, ChatIsInvariant, PTL

(* A task whose agent last said that it failed, or that it waits for       *)
(* input, is never shown completed.                                        *)
THEOREM BadNewsStays == Spec => []BadNewsIsShown
  <1>1. ChatInv => BadNewsIsShown
    BY DEF ChatInv, RequestInv, BadNewsIsShown
  <1> QED BY <1>1, ChatIsInvariant, PTL

(* A question has at most one answer on the page.                          *)
THEOREM OneAnswerEach == Spec => []AtMostOneAnswer
  <1>1. ASSUME ChatInv, NEW r \in Requests
        PROVE  Cardinality({i \in DOMAIN messages : messages[i][1] = r /\ messages[i][2] # "question"}) <= 1
    <2> DEFINE S == {i \in DOMAIN messages : messages[i][1] = r /\ messages[i][2] # "question"}
    <2>1. \A i, j \in S : i = j
      BY <1>1 DEF ChatInv, OneAnswer, IsAnswer
    <2> HIDE DEF S
    <2>2. S = {} \/ \E i : S = {i}
      BY <2>1
    <2>3. Cardinality({}) = 0 /\ \A i : Cardinality({i}) = 1
      BY FS_EmptySet, FS_Singleton
    <2>4. Cardinality(S) = 0 \/ Cardinality(S) = 1
      BY <2>2, <2>3
    <2>5. Cardinality(S) <= 1
      BY <2>4
    <2> QED BY <2>5 DEF S
  <1>2. ChatInv => AtMostOneAnswer
    BY <1>1 DEF AtMostOneAnswer
  <1> QED BY <1>2, ChatIsInvariant, PTL
===============================================================================
