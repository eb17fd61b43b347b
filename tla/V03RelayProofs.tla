---------------------------- MODULE V03RelayProofs ----------------------------
(***************************************************************************)
(* The v0.3 layer implements EventRelay, as far as safety goes: what the   *)
(* middleware keeps, translates and pads, and what the client's reader     *)
(* makes of lines, never drops, repeats or reorders a result.              *)
(*                                                                         *)
(* The lines of a stream are numbered from its start: a result's data is   *)
(* at twice its number less one, and every other line is blank.  A client  *)
(* that has k results, and is in a frame or not (o is 1 or 0), has read    *)
(* 2k + o of them.                                                         *)
(***************************************************************************)
EXTENDS V03TranslationProofs

InFrame == IF line = NoLine THEN 0 ELSE 1
LinesRead == 2 * Len(got) + InFrame

\* The line i places after the first p of a stream of n results.
InPlace(l, p, n) ==
  \A j \in Nat :
    /\ p = 2 * j => l.type = "blank"
    /\ p + 1 = 2 * j => IF j <= n THEN l.type = "data" /\ l.result.n = j ELSE l.type = "blank"

OnTheWay == IF translating /\ pc = "inner" THEN buffer ELSE wire

\* The handler answers with events; otherwise with one document.
Streaming == Streams /\ \A i \in DOMAIN sent : ~sent[i].error

StreamInv ==
  /\ \A i \in DOMAIN OnTheWay : InPlace(OnTheWay[i], i + LinesRead, Len(sent))
  /\ pc = "inner" => Len(OnTheWay) + LinesRead = 2 * Len(sent)
  /\ ended = "yes" => Len(OnTheWay) + LinesRead >= 2 * Len(sent)

DocumentInv ==
  /\ InFrame = 0 /\ Len(sent) <= 1
  /\ \A i \in DOMAIN OnTheWay : OnTheWay[i].type = "json" /\ OnTheWay[i].result.n = 1
  /\ Len(OnTheWay) + Len(got) <= Len(sent)
  /\ ended # "broken" => Len(OnTheWay) + Len(got) = Len(sent)

RelayInv ==
  /\ TypeInv
  /\ ended \in {"no", "yes", "broken"} /\ (ended = "no" <=> pc # "answered")
  /\ over \in {"open", "complete", "lost"} /\ (ended = "no" => over = "open")
  /\ translating /\ pc = "inner" => got = <<>> /\ line = NoLine
  /\ \A i \in DOMAIN got : got[i].n = i
  /\ line # NoLine => line.n = Len(got) + 1
  /\ Len(got) + InFrame <= Len(sent)
  /\ IF Streaming THEN StreamInv ELSE DocumentInv

-----------------------------------------------------------------------------
LEMMA Numbers ==
    ASSUME TypeInv
    PROVE  /\ Len(sent) \in Nat /\ Len(got) \in Nat /\ InFrame \in {0, 1}
           /\ LinesRead = 2 * Len(got) + InFrame /\ LinesRead \in Nat
           /\ \A r \in Delivered : r.n \in Nat \ {0} /\ r # NoLine
           /\ OnTheWay \in Seq(Lines(Raw)) \union Seq(Lines(Delivered))
           /\ Len(OnTheWay) \in Nat /\ DOMAIN OnTheWay = 1 .. Len(OnTheWay)
  <1>1. sent \in Seq(Raw) /\ got \in Seq(Delivered)
    BY DEF TypeInv
  <1>2. Len(sent) \in Nat /\ Len(got) \in Nat
    BY <1>1
  <1>3. InFrame \in {0, 1}
    BY DEF InFrame
  <1>4. LinesRead = 2 * Len(got) + InFrame /\ LinesRead \in Nat
    BY <1>2, <1>3 DEF LinesRead
  <1>5. ASSUME NEW r \in Delivered
        PROVE  r.n \in Nat \ {0} /\ r # NoLine
    <2>1. r.n \in Nat \ {0}
      <3>1. CASE Translated
        <4>1. PICK q \in Raw : r = ResultToV03(q)
          BY <3>1 DEF Delivered
        <4> QED BY <4>1, RawFields
      <3>2. CASE ~Translated
        BY <3>2, RawFields DEF Delivered
      <3> QED BY <3>1, <3>2
    <2> QED BY <2>1 DEF NoLine
  <1>6. OnTheWay \in Seq(Lines(Raw)) \union Seq(Lines(Delivered))
    BY DEF TypeInv, OnTheWay
  <1>7. Len(OnTheWay) \in Nat /\ DOMAIN OnTheWay = 1 .. Len(OnTheWay)
    BY <1>6
  <1> QED BY <1>2, <1>3, <1>4, <1>5, <1>6, <1>7

LEMMA RelayInvInit == Init => RelayInv
  <1> SUFFICES ASSUME Init PROVE RelayInv
    OBVIOUS
  <1>1. TypeInv
    BY TypeInvInit
  <1>2. /\ pc = "arrived" /\ ended = "no" /\ over = "open" /\ translating = FALSE
        /\ sent = <<>> /\ wire = <<>> /\ got = <<>> /\ line = NoLine
        /\ forwarded.method = "none"
    BY DEF Init
  <1>3. ~Streaming
    BY <1>2 DEF Streaming, Streams
  <1>4. OnTheWay = <<>> /\ InFrame = 0
    BY <1>2 DEF OnTheWay, InFrame
  <1>5. Len(sent) = 0 /\ Len(got) = 0 /\ Len(OnTheWay) = 0 /\ DOMAIN OnTheWay = {} /\ DOMAIN got = {}
    BY <1>2, <1>4
  <1>6. DocumentInv
    BY <1>4, <1>5 DEF DocumentInv
  <1> QED BY <1>1, <1>2, <1>3, <1>4, <1>5, <1>6 DEF RelayInv

LEMMA InvokeRelays ==
    ASSUME RelayInv, InvokeNext \/ InvokeTranslated
    PROVE  RelayInv'
  <1>1. TypeInv' /\ TypeInv
    BY InvokeKeeps DEF RelayInv
  <1>2. /\ pc = "arrived" /\ pc' = "inner"
        /\ UNCHANGED <<request, sent, buffer, wire, line, got, ended, over>>
    BY DEF InvokeNext, InvokeTranslated, client
  <1>3. /\ sent' = <<>> /\ buffer' = <<>> /\ wire' = <<>> /\ got' = <<>> /\ line' = NoLine
        /\ ended' = "no" /\ over' = "open"
    BY <1>1, <1>2 DEF TypeInv, RelayInv
  <1>4. OnTheWay' = <<>> /\ InFrame' = 0
    BY <1>3 DEF OnTheWay, InFrame
  <1>5. /\ Len(sent') = 0 /\ Len(got') = 0 /\ Len(OnTheWay') = 0
        /\ DOMAIN OnTheWay' = {} /\ DOMAIN got' = {} /\ LinesRead' = 0
    BY <1>3, <1>4 DEF LinesRead
  <1>6. DocumentInv' /\ StreamInv'
    BY <1>3, <1>4, <1>5 DEF DocumentInv, StreamInv
  <1> QED BY <1>1, <1>2, <1>3, <1>4, <1>5, <1>6 DEF RelayInv

\* A line within a stream stays in its place when the stream grows.
LEMMA PlaceStays ==
    ASSUME NEW l, NEW p \in Nat, NEW n \in Nat, p <= 2 * n, InPlace(l, p, n)
    PROVE  InPlace(l, p, n + 1)
  <1> SUFFICES ASSUME NEW j \in Nat
               PROVE  /\ p = 2 * j => l.type = "blank"
                      /\ p + 1 = 2 * j => IF j <= n + 1 THEN l.type = "data" /\ l.result.n = j
                                                        ELSE l.type = "blank"
    BY DEF InPlace
  <1>1. p = 2 * j => l.type = "blank"
    BY DEF InPlace
  <1>2. ASSUME p + 1 = 2 * j
        PROVE  j <= n /\ l.type = "data" /\ l.result.n = j
    BY <1>2 DEF InPlace
  <1> QED BY <1>1, <1>2

\* Where the data of the next result belongs, and the blank line after it.
LEMMA NextPlaces ==
    ASSUME NEW n \in Nat, NEW r, r.n = n + 1
    PROVE  /\ InPlace(Data(r), 2 * n + 1, n + 1)
           /\ InPlace(Blank, 2 * n + 2, n + 1)
           /\ InPlace(Blank, 2 * n + 1, n)
  <1>1. Data(r).type = "data" /\ Data(r).result = r /\ Blank.type = "blank"
    BY DEF Data, Blank
  <1>2. \A j \in Nat : 2 * n + 1 # 2 * j
    OBVIOUS
  <1>3. \A j \in Nat : 2 * n + 2 + 1 # 2 * j
    OBVIOUS
  <1>4. \A j \in Nat : (2 * n + 1) + 1 = 2 * j => j = n + 1
    OBVIOUS
  <1>5. InPlace(Data(r), 2 * n + 1, n + 1)
    BY <1>1, <1>2, <1>4 DEF InPlace
  <1>6. InPlace(Blank, 2 * n + 2, n + 1)
    BY <1>1, <1>3 DEF InPlace
  <1>7. InPlace(Blank, 2 * n + 1, n)
    BY <1>1, <1>2, <1>4 DEF InPlace
  <1> QED BY <1>5, <1>6, <1>7

LEMMA EmitRelays ==
    ASSUME RelayInv, HandlerEmits
    PROVE  RelayInv'
  <1>1. TypeInv /\ TypeInv'
    BY EmitKeeps DEF RelayInv
  <1>2. /\ pc = "inner" /\ Streams /\ \A i \in DOMAIN sent : ~sent[i].error
        /\ sent' = Append(sent, Result(FALSE))
        /\ Write(<<Data(Result(FALSE)), Blank>>)
        /\ UNCHANGED <<request, pc, forwarded, translating, ended, line, got, over>>
    BY DEF HandlerEmits, client
  <1> DEFINE s == OnTheWay
             t == OnTheWay'
             n == Len(sent)
  <1>3. /\ n \in Nat /\ Len(s) \in Nat /\ LinesRead \in Nat
        /\ InFrame \in {0, 1} /\ Len(got) \in Nat
    BY <1>1, Numbers
  <1>4. Result(FALSE).n = n + 1 /\ Result(FALSE).error = FALSE /\ sent \in Seq(Raw)
    BY <1>1, ResultType DEF TypeInv
  <1>5. Len(sent') = n + 1
    BY <1>2, <1>4
  <1>6. t = s \o <<Data(Result(FALSE)), Blank>>
    BY <1>2 DEF OnTheWay, Write
  <1>7. /\ s \in Seq(Lines(Raw))
        /\ Data(Result(FALSE)) \in Lines(Raw) /\ Blank \in Lines(Raw)
    <2>1. Data(Result(FALSE)) \in Lines(Raw) /\ Blank \in Lines(Raw)
      BY <1>4, ResultType DEF Lines
    <2>2. CASE translating
      BY <1>1, <1>2, <2>1, <2>2 DEF OnTheWay, TypeInv
    <2>3. CASE ~translating
      <3>1. Delivered = Raw
        BY <1>1, <1>2, <2>3 DEF TypeInv, Delivered, Translated
      <3> QED BY <1>1, <2>1, <2>3, <3>1 DEF OnTheWay, TypeInv
    <2> QED BY <2>2, <2>3
  <1>8. /\ Len(t) = Len(s) + 2 /\ DOMAIN t = 1 .. Len(s) + 2 /\ DOMAIN s = 1 .. Len(s)
        /\ \A i \in DOMAIN s : t[i] = s[i]
        /\ t[Len(s) + 1] = Data(Result(FALSE)) /\ t[Len(s) + 2] = Blank
    <2> DEFINE S == Lines(Raw)
               a == Data(Result(FALSE))
               b == Blank
    <2>1. s \in Seq(S) /\ a \in S /\ b \in S /\ t = s \o <<a, b>>
      BY <1>6, <1>7
    <2> HIDE DEF s, t, S, a, b
    <2>2. Len(t) = Len(s) + 2
      BY <2>1
    <2>3. DOMAIN t = 1 .. Len(t) /\ DOMAIN s = 1 .. Len(s) /\ Len(s) \in Nat
      BY <2>1
    <2>4. \A i \in DOMAIN s : t[i] = s[i]
      BY <2>1
    <2>5. t[Len(s) + 1] = a
      BY <2>1, <2>2, <2>3
    <2>6. t[Len(s) + 2] = b
      BY <2>1, <2>2, <2>3
    <2> QED BY <2>2, <2>3, <2>4, <2>5, <2>6 DEF a, b
  <1>9. LinesRead' = LinesRead /\ InFrame' = InFrame
    BY <1>2 DEF LinesRead, InFrame
  <1>10. Streaming /\ StreamInv
    BY <1>2 DEF Streaming, RelayInv
  <1>11. Streaming'
    <2>1. Streams'
      BY <1>2 DEF Streams
    <2>2. ASSUME NEW i \in DOMAIN sent'
          PROVE  ~sent'[i].error
      <3> DEFINE r == Result(FALSE)
      <3>1. sent' = Append(sent, r) /\ sent \in Seq(Raw) /\ r \in Raw
        BY <1>2, <1>4, ResultType
      <3> HIDE DEF r, n
      <3>2. i \in 1 .. Len(sent) + 1
        BY <2>2, <3>1
      <3>3. CASE i = Len(sent) + 1
        <4>1. sent'[i] = r
          BY <3>1, <3>3
        <4> QED BY <1>4, <4>1 DEF r
      <3>4. CASE i \in 1 .. Len(sent)
        <4>1. sent'[i] = sent[i] /\ i \in DOMAIN sent
          BY <3>1, <3>4
        <4> QED BY <1>2, <4>1
      <3>5. Len(sent) \in Nat
        BY <3>1
      <3> QED BY <3>2, <3>3, <3>4, <3>5
    <2> QED BY <2>1, <2>2 DEF Streaming
  <1>12. Len(s) + LinesRead = 2 * n
    BY <1>2, <1>10 DEF StreamInv
  <1>13. ASSUME NEW i \in DOMAIN t
         PROVE  InPlace(t[i], i + LinesRead, n + 1)
    <2>1. CASE i \in DOMAIN s
      <3>1. InPlace(s[i], i + LinesRead, n)
        BY <1>10, <2>1 DEF StreamInv
      <3>2. i + LinesRead \in Nat /\ i + LinesRead <= 2 * n
        BY <1>3, <1>8, <1>12, <2>1
      <3> HIDE DEF s, t, n
      <3> QED BY <1>3, <1>8, <2>1, <3>1, <3>2, PlaceStays
    <2>2. CASE i = Len(s) + 1
      <3>1. i + LinesRead = 2 * n + 1
        BY <1>3, <1>12, <2>2
      <3> HIDE DEF s, t, n
      <3> QED BY <1>3, <1>4, <1>8, <2>2, <3>1, NextPlaces
    <2>3. CASE i = Len(s) + 2
      <3>1. i + LinesRead = 2 * n + 2
        BY <1>3, <1>12, <2>3
      <3> HIDE DEF s, t, n
      <3> QED BY <1>3, <1>4, <1>8, <2>3, <3>1, NextPlaces
    <2> QED BY <1>3, <1>8, <2>1, <2>2, <2>3
  <1>14. Len(t) + LinesRead = 2 * (n + 1)
    BY <1>3, <1>8, <1>12
  <1>15. ended' = "no"
    BY <1>2 DEF RelayInv
  <1>16. StreamInv'
    BY <1>5, <1>9, <1>13, <1>14, <1>15 DEF StreamInv
  <1>17. Len(got') + InFrame' <= Len(sent')
    BY <1>2, <1>3, <1>5, <1>9 DEF RelayInv
  <1> QED BY <1>1, <1>2, <1>11, <1>16, <1>17 DEF RelayInv

LEMMA AnswerRelays ==
    ASSUME RelayInv, HandlerAnswers
    PROVE  RelayInv'
  <1>1. TypeInv /\ TypeInv'
    BY AnswerKeeps DEF RelayInv
  <1>2. PICK e \in BOOLEAN :
          /\ ~e => forwarded.method = "SendMessage"
          /\ sent' = <<Result(e)>>
          /\ Write(<<Document(Result(e))>>)
    BY DEF HandlerAnswers
  <1>3. /\ pc = "inner" /\ sent = <<>>
        /\ UNCHANGED <<request, pc, forwarded, translating, ended, line, got, over>>
    BY DEF HandlerAnswers, client
  <1>4. /\ Len(got) \in Nat /\ InFrame \in {0, 1} /\ Len(OnTheWay) \in Nat /\ Len(sent) = 0
        /\ LinesRead = 2 * Len(got) + InFrame
    BY <1>1, <1>3, Numbers
  <1>5. Len(got) = 0 /\ InFrame = 0
    BY <1>4 DEF RelayInv
  <1>6. Len(OnTheWay) = 0
    <2>1. CASE Streaming
      BY <1>3, <1>4, <1>5, <2>1 DEF RelayInv, StreamInv
    <2>2. CASE ~Streaming
      BY <1>4, <1>5, <2>2 DEF RelayInv, DocumentInv
    <2> QED BY <2>1, <2>2
  <1>7. OnTheWay = <<>>
    <2>1. OnTheWay \in Seq(Lines(Raw)) \union Seq(Lines(Delivered))
      BY <1>1, Numbers
    <2> QED BY <1>6, <2>1
  <1>8. OnTheWay' = <<Document(Result(e))>>
    <2>1. OnTheWay' = OnTheWay \o <<Document(Result(e))>>
      BY <1>2, <1>3 DEF OnTheWay, Write
    <2> QED BY <1>7, <2>1
  <1>9. Result(e).n = 1 /\ Result(e).error = e
    BY <1>1, <1>4, ResultType DEF TypeInv
  <1>10. ~Streaming'
    <2>1. CASE e
      <3>1. 1 \in DOMAIN sent' /\ sent'[1] = Result(e)
        BY <1>2
      <3>2. Result(e).error = TRUE
        BY <1>9, <2>1
      <3> QED BY <3>1, <3>2 DEF Streaming
    <2>2. CASE ~e
      <3>1. ~Streams'
        BY <1>2, <1>3, <2>2 DEF Streams
      <3> QED BY <3>1 DEF Streaming
    <2> QED BY <2>1, <2>2
  <1>11. InFrame' = 0 /\ Len(got') = 0 /\ Len(sent') = 1 /\ Len(OnTheWay') = 1
    BY <1>2, <1>3, <1>5, <1>8 DEF InFrame
  <1>12. \A i \in DOMAIN OnTheWay' : OnTheWay'[i].type = "json" /\ OnTheWay'[i].result.n = 1
    BY <1>8, <1>9 DEF Document
  <1>13. DocumentInv'
    BY <1>11, <1>12 DEF DocumentInv
  <1> QED BY <1>1, <1>3, <1>10, <1>11, <1>13 DEF RelayInv

\* A line in its place is a blank one or an event's, and beyond the end blank.
LEMMA PlaceTypes ==
    ASSUME NEW l, NEW p \in Nat, NEW n \in Nat, InPlace(l, p, n)
    PROVE  l.type \in {"data", "blank"} /\ (p > 2 * n => l.type = "blank")
  <1>1. PICK j \in Nat : p = 2 * j \/ p + 1 = 2 * j
    <2>1. (p + 1) \div 2 \in Nat /\ (p = 2 * ((p + 1) \div 2) \/ p + 1 = 2 * ((p + 1) \div 2))
      OBVIOUS
    <2> QED BY <2>1
  <1>2. CASE p = 2 * j
    BY <1>2 DEF InPlace
  <1>3. CASE p + 1 = 2 * j
    <2>1. p > 2 * n => ~(j <= n)
      BY <1>3
    <2> QED BY <1>3, <2>1 DEF InPlace
  <1> QED BY <1>1, <1>2, <1>3

LEMMA PlaceBeyond ==
    ASSUME NEW l, NEW p \in Nat, NEW n \in Nat, p > 2 * n, l.type = "blank"
    PROVE  InPlace(l, p, n)
  <1>1. \A j \in Nat : p + 1 = 2 * j => ~(j <= n)
    OBVIOUS
  <1> QED BY <1>1 DEF InPlace

\* A line is in its place for its type and its number alone.
LEMMA PlaceOf ==
    ASSUME NEW l, NEW m, NEW p \in Nat, NEW n \in Nat, InPlace(l, p, n),
           m.type = l.type, l.type = "data" => m.result.n = l.result.n
    PROVE  InPlace(m, p, n)
  BY DEF InPlace

LEMMA TranslationRelays ==
    ASSUME RelayInv, translating, pc = "inner", Streaming
    PROVE  /\ HasEvents =>
                /\ Len(TranslateSseContent(buffer)) = 2 * Len(sent) + 1
                /\ \A i \in 1 .. 2 * Len(sent) + 1 :
                     InPlace(TranslateSseContent(buffer)[i], i, Len(sent))
           /\ TranslateJsonResponse(buffer) = buffer
           /\ Len(buffer) = 2 * Len(sent)
           /\ \A i \in DOMAIN buffer : InPlace(buffer[i], i, Len(sent))
  <1> DEFINE n == Len(sent)
  <1>1. TypeInv /\ StreamInv /\ got = <<>> /\ line = NoLine
    BY DEF RelayInv
  <1>2. LinesRead = 0 /\ OnTheWay = buffer /\ buffer \in Seq(Lines(Raw))
    BY <1>1 DEF LinesRead, InFrame, OnTheWay, TypeInv
  <1>3. n \in Nat /\ Len(buffer) \in Nat /\ DOMAIN buffer = 1 .. Len(buffer)
    BY <1>1, <1>2, Numbers
  <1>4. Len(buffer) = 2 * n
    BY <1>1, <1>2, <1>3 DEF StreamInv
  <1>5. \A i \in DOMAIN buffer : InPlace(buffer[i], i, n)
    BY <1>1, <1>2, <1>3 DEF StreamInv
  <1>6. \A i \in DOMAIN buffer : buffer[i].type \in {"data", "blank"}
    <2> TAKE i \in DOMAIN buffer
    <2>1. i \in Nat /\ InPlace(buffer[i], i, n)
      BY <1>3, <1>5
    <2> HIDE DEF n
    <2> QED BY <1>3, <2>1, PlaceTypes
  <1>7. TranslateJsonResponse(buffer) = buffer
    BY <1>2, <1>6 DEF TranslateJsonResponse
  <1>8. ASSUME HasEvents
        PROVE  /\ Len(TranslateSseContent(buffer)) = 2 * n + 1
               /\ \A i \in 1 .. 2 * n + 1 : InPlace(TranslateSseContent(buffer)[i], i, n)
    <2> DEFINE T(i) == IF buffer[i].type = "data" THEN Data(ResultToV03(buffer[i].result)) ELSE buffer[i]
               t == [i \in DOMAIN buffer |-> T(i)]
               all == Append(t, Blank)
               S == {T(i) : i \in DOMAIN buffer} \union {Blank}
    <2>1. t \in Seq(S) /\ Blank \in S
      BY <1>2
    <2>2. Len(t) = 2 * n /\ \A i \in 1 .. 2 * n : t[i] = T(i)
      BY <1>2, <1>4
    <2>3. Len(all) = 2 * n + 1 /\ all[2 * n + 1] = Blank /\ \A i \in 1 .. 2 * n : all[i] = T(i)
      <3> HIDE DEF T, t, S, n
      <3>1. Len(t) \in Nat
        BY <2>1
      <3> QED BY <1>3, <2>1, <2>2, <3>1
    <2>4. ASSUME NEW i \in 1 .. 2 * n
          PROVE  InPlace(T(i), i, n)
      <3>1. i \in DOMAIN buffer /\ i \in Nat /\ InPlace(buffer[i], i, n)
        BY <1>3, <1>4, <1>5
      <3>2. CASE buffer[i].type = "data"
        <4>1. buffer[i].result \in Raw
          BY <1>2, <3>1, <3>2, LineKinds
        <4>2. T(i).type = "data" /\ T(i).result.n = buffer[i].result.n
          BY <3>2, <4>1, RawFields DEF Data
        <4> HIDE DEF n, T
        <4> QED BY <1>3, <3>1, <3>2, <4>2, PlaceOf
      <3>3. CASE buffer[i].type # "data"
        BY <3>1, <3>3
      <3> QED BY <3>2, <3>3
    <2>5. InPlace(Blank, 2 * n + 1, n)
      <3>1. Blank.type = "blank" /\ 2 * n + 1 \in Nat /\ 2 * n + 1 > 2 * n
        BY <1>3 DEF Blank
      <3> HIDE DEF n
      <3> QED BY <1>3, <3>1, PlaceBeyond
    <2>6. TranslateSseContent(buffer) = all
      BY DEF TranslateSseContent
    <2>7. ASSUME NEW i \in 1 .. 2 * n + 1
          PROVE  InPlace(all[i], i, n)
      <3> HIDE DEF T, t, S, n, all
      <3>1. i \in 1 .. 2 * n \/ i = 2 * n + 1
        BY <1>3
      <3> QED BY <2>3, <2>4, <2>5, <3>1
    <2> HIDE DEF T, t, S, all
    <2> QED BY <2>3, <2>6, <2>7
  <1> QED BY <1>4, <1>5, <1>7, <1>8

LEMMA ReturnRelays ==
    ASSUME RelayInv, HandlerReturns
    PROVE  RelayInv'
  <1>1. TypeInv /\ TypeInv'
    BY EndKeeps DEF RelayInv
  <1>2. /\ pc = "inner" /\ pc' = "answered" /\ ended' = "yes" /\ ended = "no"
        /\ UNCHANGED <<request, forwarded, translating, sent, line, got, over>>
    BY DEF HandlerReturns, client, RelayInv
  <1>3. /\ LinesRead' = LinesRead /\ InFrame' = InFrame /\ OnTheWay' = wire'
        /\ Streaming' = Streaming
    BY <1>2 DEF LinesRead, InFrame, OnTheWay, Streaming, Streams
  <1>4. /\ Len(sent) \in Nat /\ Len(got) \in Nat /\ LinesRead \in Nat
        /\ Len(OnTheWay) \in Nat /\ DOMAIN OnTheWay = 1 .. Len(OnTheWay)
    BY <1>1, Numbers
  <1>5. CASE ~translating
    <2>1. OnTheWay' = OnTheWay
      BY <1>2, <1>3, <1>5 DEF HandlerReturns, OnTheWay
    <2>2. StreamInv => StreamInv'
      BY <1>2, <1>3, <1>4, <2>1 DEF StreamInv
    <2>3. DocumentInv => DocumentInv'
      BY <1>2, <1>3, <1>4, <2>1 DEF DocumentInv
    <2> QED BY <1>1, <1>2, <1>3, <2>2, <2>3 DEF RelayInv
  <1>6. CASE translating /\ Streaming
    <2>1. got = <<>> /\ line = NoLine
      BY <1>2, <1>6 DEF RelayInv
    <2>2. LinesRead = 0
      BY <2>1 DEF LinesRead, InFrame
    <2>3. \/ /\ Len(wire') = 2 * Len(sent) + 1
             /\ DOMAIN wire' = 1 .. 2 * Len(sent) + 1
          \/ /\ Len(wire') = 2 * Len(sent)
             /\ DOMAIN wire' = 1 .. 2 * Len(sent)
      <3>1. Len(wire') = 2 * Len(sent) + 1 \/ Len(wire') = 2 * Len(sent)
        BY <1>2, <1>6, TranslationRelays DEF HandlerReturns
      <3>2. DOMAIN wire' = 1 .. Len(wire')
        BY <1>1 DEF TypeInv
      <3> QED BY <3>1, <3>2
    <2>4. \A i \in DOMAIN wire' : InPlace(wire'[i], i, Len(sent))
      <3>1. CASE IsStreaming(request.method) /\ HasEvents
        <4>1. wire' = TranslateSseContent(buffer)
          BY <1>6, <3>1 DEF HandlerReturns
        <4>2. DOMAIN wire' = 1 .. 2 * Len(sent) + 1
          <5>1. Len(wire') = 2 * Len(sent) + 1
            BY <1>2, <1>6, <3>1, <4>1, TranslationRelays
          <5>2. DOMAIN wire' = 1 .. Len(wire')
            BY <1>1 DEF TypeInv
          <5> QED BY <5>1, <5>2
        <4> QED BY <1>2, <1>6, <3>1, <4>1, <4>2, TranslationRelays
      <3>2. CASE ~(IsStreaming(request.method) /\ HasEvents)
        <4>1. wire' = buffer
          BY <1>2, <1>6, <3>2, TranslationRelays DEF HandlerReturns
        <4> QED BY <1>2, <1>6, <4>1, TranslationRelays
      <3> QED BY <3>1, <3>2
    <2>5. \A i \in DOMAIN wire' : i + 0 = i
      BY <2>3
    <2>6. StreamInv'
      BY <1>2, <1>3, <1>4, <2>2, <2>3, <2>4, <2>5 DEF StreamInv
    <2> QED BY <1>1, <1>2, <1>3, <1>6, <2>1, <2>6 DEF RelayInv
  <1>7. CASE translating /\ ~Streaming
    <2>1. DocumentInv /\ OnTheWay = buffer /\ buffer \in Seq(Lines(Raw))
      BY <1>1, <1>2, <1>7 DEF RelayInv, OnTheWay, TypeInv
    <2>2. ~HasEvents
      BY <2>1 DEF DocumentInv, HasEvents
    <2>3. wire' = TranslateJsonResponse(buffer)
      BY <1>7, <2>2 DEF HandlerReturns
    <2>4. Len(wire') = Len(buffer) /\ DOMAIN wire' = DOMAIN buffer
      BY <2>1, <2>3 DEF TranslateJsonResponse
    <2>5. ASSUME NEW i \in DOMAIN wire'
          PROVE  wire'[i].type = "json" /\ wire'[i].result.n = 1
      <3>1. buffer[i].type = "json" /\ buffer[i].result.n = 1
        BY <2>1, <2>4 DEF DocumentInv
      <3>2. buffer[i].result \in Raw
        BY <2>1, <2>4, <3>1, LineKinds
      <3>3. wire'[i] = Document(ResultToV03(buffer[i].result))
        BY <2>3, <2>4, <3>1 DEF TranslateJsonResponse
      <3> QED BY <3>1, <3>2, <3>3, RawFields DEF Document
    <2>6. DocumentInv'
      BY <1>2, <1>3, <1>4, <2>1, <2>4, <2>5 DEF DocumentInv
    <2> QED BY <1>1, <1>2, <1>3, <1>7, <2>6 DEF RelayInv
  <1> QED BY <1>5, <1>6, <1>7

LEMMA ThrowRelays ==
    ASSUME RelayInv, HandlerThrows
    PROVE  RelayInv'
  <1>1. TypeInv /\ TypeInv'
    BY EndKeeps DEF RelayInv
  <1>2. /\ pc = "inner" /\ pc' = "answered" /\ ended' = "broken" /\ ended = "no"
        /\ UNCHANGED <<request, forwarded, translating, sent, wire, line, got, over>>
    BY DEF HandlerThrows, client, RelayInv
  <1>3. /\ LinesRead' = LinesRead /\ InFrame' = InFrame /\ OnTheWay' = wire
        /\ Streaming' = Streaming
    BY <1>2 DEF LinesRead, InFrame, OnTheWay, Streaming, Streams
  <1>4. /\ Len(sent) \in Nat /\ Len(got) \in Nat /\ InFrame \in {0, 1}
        /\ Len(OnTheWay) \in Nat
    BY <1>1, Numbers
  <1>5. OnTheWay' = OnTheWay \/ OnTheWay' = <<>>
    BY <1>1, <1>2, <1>3 DEF OnTheWay, TypeInv
  <1>6. StreamInv => StreamInv'
    BY <1>2, <1>3, <1>5 DEF StreamInv
  <1>7. DocumentInv => DocumentInv'
    <2>1. CASE OnTheWay' = OnTheWay
      BY <1>2, <1>3, <1>4, <2>1 DEF DocumentInv
    <2>2. CASE OnTheWay' = <<>>
      <3>1. Len(OnTheWay') = 0 /\ DOMAIN OnTheWay' = {}
        BY <2>2
      <3> QED BY <1>2, <1>3, <1>4, <3>1 DEF DocumentInv
    <2> QED BY <1>5, <2>1, <2>2
  <1> QED BY <1>1, <1>2, <1>3, <1>6, <1>7 DEF RelayInv

\* What the reader does with the next line: the facts every case starts from.
LEMMA ReadFacts ==
    ASSUME RelayInv, ClientReads
    PROVE  /\ OnTheWay = wire /\ OnTheWay' = Tail(wire) /\ ReadLine
           /\ Len(wire) \in Nat \ {0} /\ Len(Tail(wire)) = Len(wire) - 1
           /\ Head(wire) = wire[1] /\ 1 \in DOMAIN wire
           /\ \A i \in DOMAIN Tail(wire) :
                Tail(wire)[i] = wire[i + 1] /\ i + 1 \in DOMAIN wire /\ i \in Nat \ {0}
           /\ Streaming' = Streaming
           /\ UNCHANGED <<pc, sent, ended, over, translating>>
           /\ over = "open" /\ ~(translating /\ pc = "inner")
           /\ wire \in Seq(Lines(Delivered))
  <1>1. /\ wire # <<>> /\ wire' = Tail(wire) /\ ReadLine /\ over = "open"
        /\ UNCHANGED <<request, pc, forwarded, translating, sent, ended, over>>
    BY DEF ClientReads, server
  <1>2. ~(translating /\ pc = "inner") /\ wire \in Seq(Lines(Delivered))
    BY <1>1 DEF RelayInv, TypeInv
  <1>3. OnTheWay = wire /\ OnTheWay' = Tail(wire)
    BY <1>1, <1>2 DEF OnTheWay
  <1>4. Streaming' = Streaming
    BY <1>1 DEF Streaming, Streams
  <1>5. Len(wire) \in Nat \ {0} /\ Len(Tail(wire)) = Len(wire) - 1
    BY <1>1, <1>2
  <1>6. Head(wire) = wire[1] /\ 1 \in DOMAIN wire
    BY <1>1, <1>2
  <1>7. \A i \in DOMAIN Tail(wire) :
          Tail(wire)[i] = wire[i + 1] /\ i + 1 \in DOMAIN wire /\ i \in Nat \ {0}
    BY <1>1, <1>2
  <1> QED BY <1>1, <1>2, <1>3, <1>4, <1>5, <1>6, <1>7

\* What is left of the invariant once the shape of the rest is known.
LEMMA ReadRest ==
    ASSUME RelayInv, ClientReads,
           \A i \in DOMAIN got' : got'[i].n = i,
           line' # NoLine => line'.n = Len(got') + 1,
           Len(got') + InFrame' <= Len(sent),
           IF Streaming THEN StreamInv' ELSE DocumentInv'
    PROVE  RelayInv'
  <1>1. TypeInv'
    BY ReadKeeps DEF RelayInv
  <1>2. /\ Streaming' = Streaming /\ ~(translating /\ pc = "inner")
        /\ UNCHANGED <<pc, sent, ended, over, translating>>
    BY ReadFacts
  <1>3. /\ ended' \in {"no", "yes", "broken"} /\ (ended' = "no" <=> pc' # "answered")
        /\ over' \in {"open", "complete", "lost"} /\ (ended' = "no" => over' = "open")
    BY <1>2 DEF RelayInv
  <1>4. ~(translating' /\ pc' = "inner")
    BY <1>2
  <1>5. Len(got') + InFrame' <= Len(sent')
    BY <1>2
  <1>6. IF Streaming' THEN StreamInv' ELSE DocumentInv'
    BY <1>2
  <1> QED BY <1>1, <1>3, <1>4, <1>5, <1>6 DEF RelayInv

LEMMA ReadStream ==
    ASSUME RelayInv, ClientReads, Streaming
    PROVE  /\ RelayInv'
           /\ \/ UNCHANGED got
              \/ /\ got' = Append(got, line) /\ line.n = Len(got) + 1
                 /\ Len(got) < Len(sent)
  <1> DEFINE n == Len(sent)
             k == Len(got)
             h == Head(wire)
             t == Tail(wire)
  <1>1. TypeInv /\ TypeInv' /\ StreamInv
    BY ReadKeeps DEF RelayInv
  <1>2. /\ n \in Nat /\ k \in Nat /\ InFrame \in {0, 1} /\ LinesRead = 2 * k + InFrame
        /\ LinesRead \in Nat /\ n' = n /\ k + InFrame <= n
    BY <1>1, Numbers, ReadFacts DEF RelayInv
  <1>3. InPlace(h, 1 + LinesRead, n)
    BY <1>1, ReadFacts DEF StreamInv
  <1>4. h.type \in {"data", "blank"}
    <2>1. 1 + LinesRead \in Nat
      BY <1>2
    <2> HIDE DEF n, h
    <2> QED BY <1>2, <1>3, <2>1, PlaceTypes
  <1>5. \A i \in DOMAIN t : i \in Nat /\ InPlace(t[i], (i + 1) + LinesRead, n)
    BY <1>1, ReadFacts DEF StreamInv
  <1>6. /\ Len(wire) \in Nat \ {0} /\ Len(t) = Len(wire) - 1
        /\ pc = "inner" => Len(wire) + LinesRead = 2 * n
        /\ ended = "yes" => Len(wire) + LinesRead >= 2 * n
    BY <1>1, ReadFacts DEF StreamInv
  <1>7. CASE InFrame = 0 /\ h.type = "data"
    <2>1. line' = h.result /\ got' = got
      BY <1>7, ReadFacts DEF ReadLine
    <2>2. h.result \in Delivered
      <3>1. h \in Lines(Delivered)
        BY ReadFacts
      <3> QED BY <1>7, <3>1, LineKinds
    <2>3. line' # NoLine /\ InFrame' = 1
      BY <1>1, <2>1, <2>2, Numbers DEF InFrame
    <2>4. k + 1 <= n /\ h.result.n = k + 1
      <3>1. k + 1 \in Nat /\ (1 + LinesRead) + 1 = 2 * (k + 1)
        BY <1>2, <1>7
      <3> QED BY <1>3, <1>7, <3>1 DEF InPlace
    <2>5. LinesRead' = LinesRead + 1
      BY <1>2, <1>7, <2>1, <2>3 DEF LinesRead
    <2>6. StreamInv'
      <3>1. \A i \in DOMAIN t : InPlace(t[i], i + LinesRead', n)
        <4> TAKE i \in DOMAIN t
        <4>1. i + LinesRead' = (i + 1) + LinesRead
          BY <1>2, <1>5, <2>5
        <4> QED BY <1>5, <4>1
      <3>2. Len(t) + LinesRead' = Len(wire) + LinesRead
        BY <1>2, <1>6, <2>5
      <3> QED BY <1>2, <1>6, <3>1, <3>2, ReadFacts DEF StreamInv
    <2>7. Len(got') + InFrame' <= n
      BY <1>2, <2>1, <2>3, <2>4
    <2>8. line'.n = Len(got') + 1 /\ \A i \in DOMAIN got' : got'[i].n = i
      BY <2>1, <2>4 DEF RelayInv
    <2>9. RelayInv'
      BY <2>6, <2>7, <2>8, ReadRest
    <2> QED BY <2>1, <2>9
  <1>8. CASE InFrame = 0 /\ h.type = "blank"
    <2>1. line = NoLine
      BY <1>8 DEF InFrame
    <2>2. line' = NoLine /\ got' = got
      BY <1>8, <2>1, ReadFacts DEF ReadLine
    <2>3. InFrame' = 0 /\ LinesRead' = LinesRead
      BY <1>2, <1>8, <2>2 DEF LinesRead, InFrame
    <2>4. k = n
      <3>1. k + 1 \in Nat /\ (1 + LinesRead) + 1 = 2 * (k + 1)
        BY <1>2, <1>8
      <3>2. ~(k + 1 <= n)
        BY <1>3, <1>8, <3>1 DEF InPlace
      <3> QED BY <1>2, <1>8, <3>2
    <2>5. LinesRead = 2 * n
      BY <1>2, <1>8, <2>4
    <2>6. pc # "inner" /\ Len(t) + LinesRead >= 2 * n
      BY <1>2, <1>6, <2>5
    <2>7. ASSUME NEW i \in DOMAIN t
          PROVE  InPlace(t[i], i + LinesRead, n)
      <3>1. i \in Nat \ {0} /\ InPlace(t[i], (i + 1) + LinesRead, n)
        BY <1>5, ReadFacts
      <3>2. /\ (i + 1) + LinesRead \in Nat /\ (i + 1) + LinesRead > 2 * n
            /\ i + LinesRead \in Nat /\ i + LinesRead > 2 * n
        BY <1>2, <2>5, <3>1
      <3> HIDE DEF n, t
      <3>3. t[i].type = "blank"
        BY <1>2, <3>1, <3>2, PlaceTypes
      <3> QED BY <1>2, <3>2, <3>3, PlaceBeyond
    <2>8. StreamInv'
      BY <1>2, <2>3, <2>6, <2>7, ReadFacts DEF StreamInv
    <2>9. Len(got') + InFrame' <= n
      BY <1>2, <2>2, <2>3, <2>4
    <2>10. \A i \in DOMAIN got' : got'[i].n = i
      BY <2>2 DEF RelayInv
    <2>11. RelayInv'
      BY <2>2, <2>8, <2>9, <2>10, ReadRest
    <2> QED BY <2>2, <2>11
  <1>9. CASE InFrame = 1
    <2>1. line # NoLine /\ line.n = k + 1
      BY <1>9 DEF InFrame, RelayInv
    <2>2. h.type = "blank"
      <3>1. k + 1 \in Nat /\ 1 + LinesRead = 2 * (k + 1)
        BY <1>2, <1>9
      <3> QED BY <1>3, <3>1 DEF InPlace
    <2>3. line' = NoLine /\ got' = Append(got, line)
      BY <2>1, <2>2, ReadFacts DEF ReadLine
    <2>4. line \in Delivered /\ got \in Seq(Delivered)
      BY <1>1, <2>1 DEF TypeInv
    <2>5. Len(got') = k + 1
      BY <2>3, <2>4
    <2>6. \A i \in DOMAIN got' : got'[i].n = i
      <3> SUFFICES ASSUME NEW i \in DOMAIN got' PROVE got'[i].n = i
        OBVIOUS
      <3>1. i \in 1 .. k + 1
        BY <2>3, <2>4
      <3>2. CASE i = k + 1
        <4>1. got'[i] = line
          BY <2>3, <2>4, <3>2
        <4> QED BY <2>1, <3>2, <4>1
      <3>3. CASE i \in 1 .. k
        <4>1. got'[i] = got[i] /\ i \in DOMAIN got
          BY <2>3, <2>4, <3>3
        <4> QED BY <4>1 DEF RelayInv
      <3> QED BY <1>2, <3>1, <3>2, <3>3
    <2>7. InFrame' = 0
      BY <2>3 DEF InFrame
    <2>8. LinesRead' = LinesRead + 1
      <3>1. LinesRead' = 2 * (k + 1)
        BY <2>5, <2>7, <1>2 DEF LinesRead
      <3> HIDE DEF k
      <3> QED BY <1>2, <1>9, <3>1
    <2>9. StreamInv'
      <3>1. \A i \in DOMAIN t : InPlace(t[i], i + LinesRead', n)
        <4> TAKE i \in DOMAIN t
        <4>1. i + LinesRead' = (i + 1) + LinesRead
          BY <1>2, <1>5, <2>8
        <4> QED BY <1>5, <4>1
      <3>2. Len(t) + LinesRead' = Len(wire) + LinesRead
        BY <1>2, <1>6, <2>8
      <3> QED BY <1>2, <1>6, <3>1, <3>2, ReadFacts DEF StreamInv
    <2>10. k < n /\ Len(got') + InFrame' <= n
      BY <1>2, <1>9, <2>5, <2>7
    <2>11. RelayInv'
      BY <2>3, <2>6, <2>9, <2>10, ReadRest
    <2> QED BY <2>1, <2>3, <2>10, <2>11
  <1> QED BY <1>2, <1>4, <1>7, <1>8, <1>9

LEMMA ReadDocument ==
    ASSUME RelayInv, ClientReads, ~Streaming
    PROVE  /\ RelayInv'
           /\ \E r \in Delivered :
                got' = Append(got, r) /\ r.n = Len(got) + 1 /\ Len(got) < Len(sent)
  <1> DEFINE h == Head(wire)
  <1>1. TypeInv /\ TypeInv' /\ DocumentInv
    BY ReadKeeps DEF RelayInv
  <1>2. Len(sent) \in Nat /\ Len(got) \in Nat
    BY <1>1, Numbers
  <1>3. /\ Len(wire) = 1 /\ Len(got) = 0 /\ Len(sent) = 1 /\ Len(Tail(wire)) = 0
    <2>1. Len(wire) + Len(got) <= Len(sent) /\ Len(sent) <= 1
      BY <1>1, ReadFacts DEF DocumentInv
    <2> DEFINE w == Len(wire)
               k == Len(got)
               n == Len(sent)
    <2>2. w \in Nat \ {0} /\ Len(Tail(wire)) = w - 1
      BY ReadFacts
    <2>3. k \in Nat /\ n \in Nat /\ w + k <= n /\ n <= 1
      BY <1>2, <2>1
    <2> HIDE DEF w, k, n
    <2>4. w = 1 /\ k = 0 /\ n = 1 /\ Len(Tail(wire)) = 0
      BY <2>2, <2>3
    <2> QED BY <2>4 DEF w, k, n
  <1>4. h.type = "json" /\ h.result.n = 1
    BY <1>1, ReadFacts DEF DocumentInv
  <1>5. h.result \in Delivered
    <2>1. h \in Lines(Delivered)
      BY ReadFacts
    <2> QED BY <1>4, <2>1, LineKinds
  <1>6. line' = NoLine /\ got' = Append(got, h.result)
    BY <1>4, ReadFacts DEF ReadLine
  <1>7. got \in Seq(Delivered) /\ got = <<>>
    BY <1>1, <1>3 DEF TypeInv
  <1>8. got' = <<h.result>>
    BY <1>6, <1>7
  <1>9. Len(got') = 1 /\ InFrame' = 0 /\ \A i \in DOMAIN got' : got'[i].n = i
    <2>1. Len(got') = 1 /\ DOMAIN got' = 1 .. 1 /\ got'[1] = h.result
      BY <1>8
    <2>2. InFrame' = 0
      BY <1>6 DEF InFrame
    <2> QED BY <1>4, <2>1, <2>2
  <1>10. DOMAIN Tail(wire) = {}
    <2>1. wire \in Seq(Lines(Delivered)) /\ wire # <<>>
      BY ReadFacts DEF ClientReads
    <2> DEFINE t == Tail(wire)
    <2>2. t \in Seq(Lines(Delivered)) /\ Len(t) = 0
      BY <1>3, <2>1
    <2> HIDE DEF t
    <2>3. DOMAIN t = {}
      BY <2>2
    <2> QED BY <2>3 DEF t
  <1>11. DocumentInv'
    <2>1. OnTheWay' = Tail(wire) /\ Len(sent') = 1
      BY <1>3, ReadFacts
    <2> QED BY <1>3, <1>9, <1>10, <2>1 DEF DocumentInv
  <1>12. RelayInv'
    BY <1>3, <1>6, <1>9, <1>11, ReadRest
  <1> QED BY <1>3, <1>4, <1>5, <1>6, <1>12

LEMMA EndRelays ==
    ASSUME RelayInv, ClientEnds \/ UNCHANGED vars
    PROVE  RelayInv'
  <1>1. /\ UNCHANGED <<request, pc, forwarded, translating, sent, buffer, ended, wire, line, got>>
        /\ over' = over \/ (ended # "no" /\ over' \in {"complete", "lost"})
    BY DEF ClientEnds, server, client, vars
  <1>2. TypeInv /\ TypeInv'
    <2>1. [Next]_vars
      BY DEF Next
    <2> QED BY <2>1, TypeInvNext DEF RelayInv
  <1>3. OnTheWay' = OnTheWay /\ LinesRead' = LinesRead /\ InFrame' = InFrame /\ Streaming' = Streaming
    BY <1>1 DEF OnTheWay, LinesRead, InFrame, Streaming, Streams
  <1>4. (StreamInv => StreamInv') /\ (DocumentInv => DocumentInv')
    BY <1>1, <1>3 DEF StreamInv, DocumentInv
  <1> QED BY <1>1, <1>2, <1>3, <1>4 DEF RelayInv

LEMMA RelayInvNext == RelayInv /\ [Next]_vars => RelayInv'
  <1> SUFFICES ASSUME RelayInv, [Next]_vars PROVE RelayInv'
    OBVIOUS
  <1>1. CASE InvokeNext \/ InvokeTranslated
    BY <1>1, InvokeRelays
  <1>2. CASE HandlerEmits
    BY <1>2, EmitRelays
  <1>3. CASE HandlerAnswers
    BY <1>3, AnswerRelays
  <1>4. CASE HandlerReturns
    BY <1>4, ReturnRelays
  <1>5. CASE HandlerThrows
    BY <1>5, ThrowRelays
  <1>6. CASE ClientReads
    BY <1>6, ReadStream, ReadDocument
  <1>7. CASE ClientEnds \/ UNCHANGED vars
    BY <1>7, EndRelays
  <1> QED BY <1>1, <1>2, <1>3, <1>4, <1>5, <1>6, <1>7 DEF Next, Handler

-----------------------------------------------------------------------------
(* The refinement.                                                         *)

\* The numbers of the results the client has: the relay's got.
GotNumbers == [i \in DOMAIN got |-> got[i].n]

LEMMA NumbersGrow ==
    ASSUME got \in Seq(Delivered), NEW r \in Delivered,
           got' = Append(got, r), r.n = Len(got) + 1
    PROVE  GotNumbers' = Append(GotNumbers, Len(GotNumbers) + 1)
  <1> DEFINE k == Len(got)
             g == GotNumbers
             G == GotNumbers'
  <1>1. k \in Nat /\ DOMAIN got = 1 .. k /\ DOMAIN got' = 1 .. k + 1
    OBVIOUS
  <1>2. /\ \A i \in 1 .. k : got'[i] = got[i]
        /\ got'[k + 1] = r
    OBVIOUS
  <1>3. g = [i \in 1 .. k |-> got[i].n] /\ G = [i \in 1 .. k + 1 |-> got'[i].n]
    BY <1>1 DEF GotNumbers
  <1> DEFINE S == {got[i].n : i \in 1 .. k} \union {k + 1}
  <1>4. g \in Seq(S) /\ Len(g) = k
    BY <1>1, <1>3
  <1>5. \A i \in 1 .. k : g[i] = got[i].n
    BY <1>3
  <1>6. /\ Append(g, k + 1) = [i \in 1 .. k + 1 |-> Append(g, k + 1)[i]]
        /\ \A i \in 1 .. k : Append(g, k + 1)[i] = g[i]
        /\ Append(g, k + 1)[k + 1] = k + 1
    <2> HIDE DEF g, G, S, k
    <2> QED BY <1>1, <1>4
  <1>7. \A i \in 1 .. k + 1 : Append(g, k + 1)[i] = got'[i].n
    <2> TAKE i \in 1 .. k + 1
    <2>1. CASE i \in 1 .. k
      BY <1>2, <1>5, <1>6, <2>1
    <2>2. CASE i = k + 1
      <3>1. Append(g, k + 1)[i] = k + 1
        BY <1>6, <2>2
      <3>2. got'[i].n = k + 1
        BY <1>2, <2>2
      <3> QED BY <3>1, <3>2
    <2>3. i \in 1 .. k \/ i = k + 1
      <3> HIDE DEF k
      <3> QED BY <1>1
    <2> QED BY <2>1, <2>2, <2>3
  <1>8. G = Append(g, k + 1)
    <2> HIDE DEF g, G, k
    <2> QED BY <1>3, <1>6, <1>7
  <1> QED BY <1>4, <1>8

\* Every step of the layer is one of the relay's or changes nothing it shows.
LEMMA StepRelays ==
    ASSUME RelayInv, [Next]_vars
    PROVE  [Relay!RelayNext]_(Relay!relayVars)
  <1> USE DEF GotNumbers
  <1>1. TypeInv /\ sent \in Seq(Raw) /\ got \in Seq(Delivered)
    BY DEF RelayInv, TypeInv
  <1>2. Len(sent) \in Nat /\ Len(got) \in Nat
    BY <1>1
  <1>3. Len(GotNumbers) = Len(got)
    BY <1>1
  <1>4. CASE HandlerEmits \/ HandlerAnswers
    <2>1. over = "open" /\ UNCHANGED <<got, over>>
      BY <1>4 DEF HandlerEmits, HandlerAnswers, client, RelayInv
    <2>2. Len(sent') = Len(sent) + 1
      <3>1. CASE HandlerEmits
        BY <1>1, <3>1, ResultType DEF HandlerEmits
      <3>2. CASE HandlerAnswers
        <4>1. sent = <<>> /\ \E e \in BOOLEAN : sent' = <<Result(e)>>
          BY <3>2 DEF HandlerAnswers
        <4> QED BY <4>1
      <3> QED BY <1>4, <3>1, <3>2
    <2> QED BY <2>1, <2>2 DEF Relay!RelayNext, Relay!Send
  <1>5. CASE ClientReads
    <2>1. UNCHANGED <<sent, over>> /\ over = "open"
      BY <1>5, ReadFacts
    <2>2. CASE UNCHANGED got
      BY <2>1, <2>2 DEF Relay!relayVars
    <2>3. CASE \E r \in Delivered :
                 got' = Append(got, r) /\ r.n = Len(got) + 1 /\ Len(got) < Len(sent)
      <3>1. GotNumbers' = Append(GotNumbers, Len(GotNumbers) + 1)
        BY <1>1, <2>3, NumbersGrow
      <3> QED BY <1>3, <2>1, <2>3, <3>1 DEF Relay!RelayNext, Relay!Get
    <2>4. UNCHANGED got \/ \E r \in Delivered :
            got' = Append(got, r) /\ r.n = Len(got) + 1 /\ Len(got) < Len(sent)
      <3>1. CASE Streaming
        <4>1. line # NoLine => line \in Delivered
          BY <1>1 DEF TypeInv
        <4>2. line = NoLine => line.n = 0
          BY DEF NoLine
        <4> QED BY <1>2, <1>5, <3>1, <4>1, <4>2, ReadStream
      <3>2. CASE ~Streaming
        BY <1>5, <3>2, ReadDocument
      <3> QED BY <3>1, <3>2
    <2> QED BY <2>2, <2>3, <2>4
  <1>6. CASE ClientEnds
    <2>1. /\ over = "open" /\ wire = <<>> /\ ended # "no" /\ UNCHANGED <<sent, got>>
          /\ over' = IF ended = "yes" THEN "complete" ELSE "lost"
      BY <1>6 DEF ClientEnds, server
    <2>2. CASE ended = "yes"
      <3>1. OnTheWay = <<>>
        BY <2>1, <2>2 DEF OnTheWay, RelayInv
      <3>2. Len(OnTheWay) = 0
        BY <3>1
      <3>3. CASE Streaming
        <4>1. LinesRead >= 2 * Len(sent)
          <5>1. Len(OnTheWay) + LinesRead >= 2 * Len(sent) /\ LinesRead \in Nat
            BY <1>1, <2>2, <3>3, Numbers DEF RelayInv, StreamInv
          <5> QED BY <1>2, <3>2, <5>1
        <4>2. /\ Len(got) + InFrame <= Len(sent) /\ InFrame \in {0, 1}
              /\ LinesRead = 2 * Len(got) + InFrame
          BY <1>1, Numbers DEF RelayInv
        <4>3. Len(got) = Len(sent)
          BY <1>2, <4>1, <4>2
        <4> QED BY <1>3, <2>1, <2>2, <4>3 DEF Relay!RelayNext, Relay!Complete
      <3>4. CASE ~Streaming
        <4>1. Len(OnTheWay) + Len(got) = Len(sent)
          BY <2>2, <3>4 DEF RelayInv, DocumentInv
        <4>2. Len(got) = Len(sent)
          BY <1>2, <3>2, <4>1
        <4> QED BY <1>3, <2>1, <2>2, <4>2 DEF Relay!RelayNext, Relay!Complete
      <3> QED BY <3>3, <3>4
    <2>3. CASE ended # "yes"
      BY <2>1, <2>3 DEF Relay!RelayNext, Relay!Lose
    <2> QED BY <2>2, <2>3
  <1>7. CASE InvokeNext \/ InvokeTranslated \/ HandlerReturns \/ HandlerThrows \/ UNCHANGED vars
    <2>1. UNCHANGED <<sent, got, over>>
      BY <1>7 DEF InvokeNext, InvokeTranslated, HandlerReturns, HandlerThrows, client, server, vars
    <2> QED BY <2>1 DEF Relay!relayVars
  <1> QED BY <1>4, <1>5, <1>6, <1>7 DEF Next, Handler

LEMMA InitRelays == Init => Relay!RelayInit
  BY DEF Init, Relay!RelayInit

(* The safety half of RelaysEvents, for any parts and any number of events:*)
(* the results reach the client in order, each once and none but the       *)
(* handler's, and it takes an answer for complete only if it has them all. *)
(* It says what Process' buffering, TranslateSseContent's extra line and   *)
(* the page's reader make of a stream together.                            *)
THEOREM RelaysSafely == Spec => Relay!RelayInit /\ [][Relay!RelayNext]_(Relay!relayVars)
  <1>1. Init => RelayInv
    BY RelayInvInit
  <1>2. RelayInv /\ [Next]_vars => RelayInv'
    BY RelayInvNext
  <1>3. RelayInv /\ [Next]_vars => [Relay!RelayNext]_(Relay!relayVars)
    BY StepRelays
  <1>4. Init => Relay!RelayInit
    BY InitRelays
  <1> QED BY <1>1, <1>2, <1>3, <1>4, PTL DEF Spec

-----------------------------------------------------------------------------
\* Of the handler's results there are never more than the bound, and nothing
\* stays in memory once the request is answered.
Bounded == Len(sent) <= MaxEvents /\ (pc = "answered" => buffer = <<>>)

LEMMA BoundedInit == Init => Bounded
  BY EventsAssumption DEF Init, Bounded

LEMMA BoundedNext ==
    ASSUME TypeInv, Bounded, [Next]_vars
    PROVE  Bounded'
  <1>1. sent \in Seq(Raw) /\ Len(sent) \in Nat /\ MaxEvents \in Nat \ {0}
    BY EventsAssumption DEF TypeInv
  <1>2. CASE HandlerEmits
    <2>1. Len(sent') = Len(sent) + 1
      <3>1. sent' = Append(sent, Result(FALSE))
        BY <1>2 DEF HandlerEmits
      <3> QED BY <3>1, <1>1
    <2> QED BY <1>1, <1>2, <2>1 DEF HandlerEmits, Bounded
  <1>3. CASE HandlerAnswers
    <2>1. PICK error \in BOOLEAN : sent' = <<Result(error)>>
      BY <1>3 DEF HandlerAnswers
    <2>2. Len(sent') = 1
      BY <2>1
    <2> QED BY <1>1, <1>3, <2>2 DEF HandlerAnswers, Bounded
  <1>4. CASE HandlerReturns
    BY <1>4 DEF HandlerReturns, Bounded
  <1>5. CASE HandlerThrows
    BY <1>5 DEF HandlerThrows, Bounded
  <1>6. CASE InvokeNext \/ InvokeTranslated
    BY <1>6 DEF InvokeNext, InvokeTranslated, Bounded
  <1>7. CASE ClientReads \/ ClientEnds
    BY <1>7 DEF ClientReads, ClientEnds, Bounded, server
  <1>8. CASE UNCHANGED vars
    BY <1>8 DEF Bounded, vars, server
  <1> QED BY <1>2, <1>3, <1>4, <1>5, <1>6, <1>7, <1>8 DEF Next, Handler

LEMMA BoundedType == RelayInv /\ Bounded => TypeOK
  <1> SUFFICES ASSUME RelayInv, Bounded
               PROVE  TypeOK
    OBVIOUS
  <1>1. /\ Len(sent) \in Nat /\ Len(got) \in Nat /\ InFrame \in {0, 1}
        /\ Len(got) + InFrame <= Len(sent)
    BY Numbers DEF RelayInv
  <1>2. Len(got) <= Len(sent)
    BY <1>1
  <1> QED BY <1>2 DEF RelayInv, TypeInv, Bounded, TypeOK

\* Nothing of a translated answer reaches the client before the handler is
\* done, nothing stays in the middleware's memory after, and the client has
\* never read more than the handler sent: InvokeAsync writes to a memory stream.
THEOREM HeldBack == Spec => []TypeOK
  <1>1. Init => RelayInv /\ Bounded
    BY RelayInvInit, BoundedInit
  <1>2. RelayInv /\ Bounded /\ [Next]_vars => (RelayInv /\ Bounded)'
    BY RelayInvNext, BoundedNext DEF RelayInv
  <1>3. RelayInv /\ Bounded => TypeOK
    BY BoundedType
  <1> QED BY <1>1, <1>2, <1>3, PTL DEF Spec
=============================================================================
