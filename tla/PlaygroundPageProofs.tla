------------------------- MODULE PlaygroundPageProofs -------------------------
(***************************************************************************)
(* Proofs about the page around the chat, for any agents, editors, modals  *)
(* and widths: the invariants of its parts hold in every behaviour of it.  *)
(***************************************************************************)
EXTENDS PlaygroundPage, PlaygroundConnectionProofs, FiniteSetTheorems, SequenceTheorems

LEMMA PageSteps ==
    ASSUME [Next]_pageVars
    PROVE  [ConnNext]_connVars /\ [LoaderNext]_loaderVars /\ [LockNext]_lockVars
  BY DEF Next, pageVars, ConnStep, LoaderStep, LockStep

-----------------------------------------------------------------------------
(* The connection.                                                         *)

\* A device code on the page is polled for, in every interleaving of cancels,
\* restarts, expiries and late answers of any number of flows.
THEOREM CodeIsPolled == Spec => []CodeHasPoller
  <1>1. Init => PollingInv
    BY PollingInit DEF Init
  <1>2. PollingInv /\ [Next]_pageVars => PollingInv'
    BY PageSteps, PollingNext
  <1> QED BY <1>1, <1>2, PollingImplies, PTL DEF Spec

\* No token of an earlier selection is used for a later one, unless it was on
\* its way when the selection was made.
THEOREM TokenStaysWithSelection == Spec => []TokenOfThisSelection
  <1>1. Init => PollingInv /\ CallsInv /\ TokenInv
    BY PollingInit, CardInit, TokenInit DEF Init, CardInv
  <1>2. PollingInv /\ CallsInv /\ TokenInv /\ [Next]_pageVars => (PollingInv /\ CallsInv /\ TokenInv)'
    BY PageSteps, PollingNext, CallsNext, TokenNext
  <1> QED BY <1>1, <1>2, TokenImplies, PTL DEF Spec

\* Messages of a connected page go where the card on it says, whatever calls,
\* selections, tokens and edits came before and in whatever order they ended.
THEOREM MessagesGoToCard == Spec => []MessagesFollowCard
  <1>1. Init => CardInv
    BY CardInit DEF Init
  <1>2. CardInv /\ [Next]_pageVars => CardInv'
    BY PageSteps, CardNext
  <1> QED BY <1>1, <1>2, CardImplies, PTL DEF Spec

-----------------------------------------------------------------------------
(* The editor's loader.  An editor that has its code has been told; one    *)
(* that is gone has been told, or has canceled and ignores what it is told.*)

LoaderInv ==
  /\ mount \in [Editors -> {"new", "waiting", "loaded", "ready", "failed", "gone"}]
  /\ \A e \in Editors :
       /\ mount[e] \in {"loaded", "ready", "failed"} => e \in told
       /\ mount[e] = "gone" => e \in canceled \/ e \in told

LEMMA LoaderInvInit == LoaderInit => LoaderInv
  BY DEF LoaderInit, LoaderInv

LEMMA LoaderInvNext ==
    ASSUME LoaderInv, [LoaderNext]_loaderVars
    PROVE  LoaderInv' /\ \A e \in Editors : mount[e] = "gone" => mount'[e] = "gone"
  <1> DEFINE Goal == LoaderInv' /\ \A e \in Editors : mount[e] = "gone" => mount'[e] = "gone"
  <1> USE DEF LoaderInv
  <1>0. ASSUME UNCHANGED <<mount, canceled, told>> PROVE Goal
    BY <1>0
  <1>1. CASE Load
    BY <1>0, <1>1 DEF Load, ScriptLoads, ScriptFails, MainLoads, MainFails, Settles
  <1>2. ASSUME NEW e \in Editors, Mount(e) PROVE Goal
    BY <1>2 DEF Mount
  <1>3. ASSUME NEW e \in Editors, Deliver(e) PROVE Goal
    BY <1>3 DEF Deliver
  <1>4. ASSUME NEW e \in Editors, CreateEditor(e) PROVE Goal
    BY <1>4 DEF CreateEditor
  <1>5. ASSUME NEW e \in Editors, Unmount(e) PROVE Goal
    BY <1>5 DEF Unmount
  <1>6. CASE UNCHANGED loaderVars
    BY <1>0, <1>6 DEF loaderVars
  <1> QED BY <1>1, <1>2, <1>3, <1>4, <1>5, <1>6 DEF LoaderNext

\* An editor that was taken away is not given the code that arrives late.
THEOREM GoneEditorsStayGone == Spec => GoneStaysGone
  <1>1. Init => LoaderInv
    BY LoaderInvInit DEF Init
  <1>2. LoaderInv /\ [Next]_pageVars =>
          LoaderInv' /\ [\A e \in Editors : mount[e] = "gone" => mount'[e] = "gone"]_loaderVars
    BY PageSteps, LoaderInvNext
  <1> QED BY <1>1, <1>2, PTL DEF Spec, GoneStaysGone

-----------------------------------------------------------------------------
(* The scroll lock.  The attribute and the holders of the sheet both count *)
(* the modals, and a sheet that was measured on an unlocked page has the   *)
(* numbers of that page.                                                   *)

Free == [left |-> Margin, right |-> Margin, gap |-> Bar, locked |-> FALSE]
Fits(s) == s.locked \in BOOLEAN /\ (~s.locked => s = Free)

LockInv ==
  /\ modal \in [Modals -> {"closed", "rendered", "mounted"}]
  /\ count = Cardinality(Mounted) /\ holders = count
  /\ misfit \in BOOLEAN
  /\ DOMAIN measured = Modals
  /\ \A m \in Modals : modal[m] = "rendered" => Fits(measured[m])
  /\ holders > 0 /\ ~misfit => sheet = Free

LEMMA MountedFinite == IsFiniteSet(Mounted)
  BY ModalsAssumption, FS_Subset DEF Mounted

LEMMA LockInvInit == LockInit => LockInv
  <1> SUFFICES ASSUME LockInit PROVE LockInv
    OBVIOUS
  <1>1. Mounted = {}
    BY DEF LockInit, Mounted
  <1>2. Cardinality(Mounted) = 0
    BY <1>1, FS_EmptySet
  <1>3. count = 0 /\ holders = 0 /\ misfit = FALSE /\ DOMAIN measured = Modals
    BY DEF LockInit
  <1>4. modal \in [Modals -> {"closed", "rendered", "mounted"}] /\ \A m \in Modals : modal[m] = "closed"
    BY DEF LockInit
  <1>5. ~(holders > 0)
    BY <1>3
  <1>6. count = Cardinality(Mounted) /\ holders = count /\ misfit \in BOOLEAN
    BY <1>2, <1>3
  <1>7. \A m \in Modals : modal[m] = "rendered" => Fits(measured[m])
    BY <1>4
  <1> QED BY <1>3, <1>4, <1>5, <1>6, <1>7, Zenon DEF LockInv

\* What a modal measures on a page that is not locked are the page's numbers.
LEMMA MeasureFits == Fits(Measure)
  <1>1. CASE ~Locked
    <2>1. LeftMargin = Margin /\ RightMargin = Margin /\ BarShown = Bar
      BY <1>1 DEF LeftMargin, RightMargin, BarShown
    <2>2. Gap = Bar
      BY <2>1, LengthsAssumption DEF Gap
    <2>3. Locked = FALSE
      BY <1>1 DEF Locked
    <2>4. Measure = Free
      BY <2>1, <2>2, <2>3 DEF Measure, Free
    <2>5. Free.locked = FALSE
      BY DEF Free
    <2> QED BY <2>4, <2>5 DEF Fits
  <1>2. CASE Locked
    BY <1>2 DEF Measure, Fits
  <1> QED BY <1>1, <1>2

LEMMA LockInvNext == LockInv /\ [LockNext]_lockVars => LockInv'
  <1> SUFFICES ASSUME LockInv, [LockNext]_lockVars PROVE LockInv'
    OBVIOUS
  <1>1. ASSUME NEW m \in Modals, Render(m) PROVE LockInv'
    <2>1. /\ modal' = [modal EXCEPT ![m] = "rendered"] /\ modal[m] = "closed"
          /\ measured' = [measured EXCEPT ![m] = Measure]
          /\ UNCHANGED <<count, holders, sheet, misfit>>
      BY <1>1 DEF Render
    <2>2. Mounted' = Mounted
      BY <2>1 DEF Mounted, LockInv
    <2>3. \A n \in Modals : modal'[n] = "rendered" => Fits(measured'[n])
      BY <2>1, MeasureFits DEF LockInv
    <2>4. modal' \in [Modals -> {"closed", "rendered", "mounted"}] /\ DOMAIN measured' = Modals
      BY <2>1 DEF LockInv
    <2> QED BY <2>1, <2>2, <2>3, <2>4 DEF LockInv
  <1>2. ASSUME NEW m \in Modals, RunEffects(m) PROVE LockInv'
    <2>1. /\ modal' = [modal EXCEPT ![m] = "mounted"] /\ modal[m] = "rendered"
          /\ measured' = measured
          /\ count' = count + 1 /\ holders' = holders + 1
          /\ sheet' = IF holders = 0 THEN measured[m] ELSE sheet
          /\ misfit' = IF holders = 0 THEN measured[m].locked ELSE misfit
      BY <1>2 DEF RunEffects, Hold
    <2>2. Mounted' = Mounted \union {m} /\ m \notin Mounted
      BY <2>1 DEF Mounted, LockInv
    <2>3. Cardinality(Mounted') = Cardinality(Mounted) + 1
      BY <2>2, MountedFinite, FS_AddElement
    <2>4. Fits(measured[m]) /\ modal' \in [Modals -> {"closed", "rendered", "mounted"}]
      BY <2>1 DEF LockInv
    <2>5. \A n \in Modals : modal'[n] = "rendered" => Fits(measured'[n])
      BY <2>1 DEF LockInv
    <2>6. count \in Nat
      BY MountedFinite, FS_CardinalityType DEF LockInv
    <2>7. misfit' \in BOOLEAN /\ (holders' > 0 /\ ~misfit' => sheet' = Free)
      BY <2>1, <2>4, <2>6 DEF LockInv, Fits
    <2> QED BY <2>1, <2>3, <2>4, <2>5, <2>7 DEF LockInv
  <1>3. ASSUME NEW m \in Modals, Close(m) PROVE LockInv'
    <2>1. /\ modal' = [modal EXCEPT ![m] = "closed"] /\ modal[m] = "mounted"
          /\ measured' = [measured EXCEPT ![m] = NoSheet]
          /\ holders' = holders - 1
          /\ count' = IF count > 1 THEN count - 1 ELSE 0
          /\ sheet' = IF holders = 1 THEN NoSheet ELSE sheet
          /\ misfit' = (misfit /\ holders > 1)
      BY <1>3 DEF Close
    <2>2. Mounted' = Mounted \ {m} /\ m \in Mounted
      BY <2>1 DEF Mounted, LockInv
    <2>3. Cardinality(Mounted') = Cardinality(Mounted) - 1
      BY <2>2, MountedFinite, FS_RemoveElement
    <2>4. count \in Nat /\ count # 0
      BY <2>2, MountedFinite, FS_CardinalityType, FS_EmptySet DEF LockInv
    <2>5. count' = count - 1 /\ holders' = count'
      BY <2>1, <2>4 DEF LockInv
    <2>6. \A n \in Modals : modal'[n] = "rendered" => Fits(measured'[n])
      BY <2>1 DEF LockInv
    <2>7. modal' \in [Modals -> {"closed", "rendered", "mounted"}] /\ DOMAIN measured' = Modals
      BY <2>1 DEF LockInv
    <2>8. misfit' \in BOOLEAN /\ (holders' > 0 /\ ~misfit' => sheet' = Free)
      BY <2>1, <2>4, <2>5 DEF LockInv
    <2> QED BY <2>3, <2>5, <2>6, <2>7, <2>8 DEF LockInv
  <1>4. CASE UNCHANGED lockVars
    BY <1>4 DEF lockVars, LockInv, Mounted, Fits
  <1> QED BY <1>1, <1>2, <1>3, <1>4 DEF LockNext

LEMMA LockInvImplies == LockInv => ContentKeepsWidth /\ (Locked <=> Mounted # {})
  <1> SUFFICES ASSUME LockInv PROVE ContentKeepsWidth /\ (Locked <=> Mounted # {})
    OBVIOUS
  <1>1. count \in Nat /\ (count = 0 <=> Mounted = {})
    BY MountedFinite, FS_CardinalityType, FS_EmptySet DEF LockInv
  <1>2. Locked <=> Mounted # {}
    BY <1>1 DEF Locked, LockInv
  <1>3. CASE ~Locked
    <2>1. Taken = Bar + Margin + Margin + 0
      BY <1>3 DEF Taken, BarShown, LeftMargin, RightMargin
    <2> QED BY <1>2, <2>1, LengthsAssumption DEF ContentKeepsWidth
  <1>4. CASE Locked /\ ~misfit
    <2>1. sheet = Free
      BY <1>1, <1>4 DEF LockInv, Locked
    <2>2. Taken = 0 + 0 + Bar + (Margin + Margin)
      BY <1>4, <2>1 DEF Taken, BarShown, LeftMargin, RightMargin, Free
    <2> QED BY <1>2, <2>2, LengthsAssumption DEF ContentKeepsWidth
  <1>5. CASE misfit
    BY <1>2, <1>5 DEF ContentKeepsWidth
  <1> QED BY <1>3, <1>4, <1>5

\* However many modals open and close, in any order: the page is locked while
\* one is open, and its content takes the width it had, unless the modal whose
\* sheet is used was measured under a lock that left before it.
THEOREM LastModalUnlocks == Spec => []ContentKeepsWidth /\ [](Locked <=> Mounted # {})
  <1>1. Init => LockInv
    BY LockInvInit DEF Init
  <1>2. LockInv /\ [Next]_pageVars => LockInv'
    BY PageSteps, LockInvNext
  <1> QED BY <1>1, <1>2, LockInvImplies, PTL DEF Spec

-----------------------------------------------------------------------------
(* The stack.  No modal stands twice on it, so that taking one away leaves *)
(* exactly the others.                                                     *)

Distinct(s) == \A i, j \in DOMAIN s : s[i] = s[j] => i = j
On(s) == {s[i] : i \in DOMAIN s}

StackInv ==
  /\ stack \in Seq(Modals)
  /\ Distinct(stack)
  /\ On(stack) = Mounted
  /\ Len(stack) = count

LEMMA PartOfStack ==
    ASSUME NEW s \in Seq(Modals), NEW a \in Nat \ {0}, NEW b \in 0 .. Len(s)
    PROVE  /\ SubSeq(s, a, b) \in Seq(Modals)
           /\ Len(SubSeq(s, a, b)) = IF a <= b THEN b - a + 1 ELSE 0
           /\ \A i \in 1 .. b - a + 1 : SubSeq(s, a, b)[i] = s[a + i - 1]
  <1>1. Len(s) \in Nat /\ DOMAIN s = 1 .. Len(s) /\ \A i \in 1 .. Len(s) : s[i] \in Modals
    OBVIOUS
  <1>2. \A i \in a .. b : s[i] \in Modals
    BY <1>1
  <1> QED BY <1>1, <1>2, SubSeqProperties

LEMMA ModalLeavesStack ==
    ASSUME stack \in Seq(Modals), Distinct(stack), NEW m \in On(stack)
    PROVE  /\ Without(m) \in Seq(Modals) /\ Len(Without(m)) = Len(stack) - 1
           /\ Distinct(Without(m)) /\ On(Without(m)) = On(stack) \ {m}
  <1> DEFINE k == CHOOSE i \in DOMAIN stack : stack[i] = m
             n == Len(stack)
             left == SubSeq(stack, 1, k - 1)
             right == SubSeq(stack, k + 1, n)
             rest == left \o right
  <1>1. n \in Nat /\ DOMAIN stack = 1 .. n
    OBVIOUS
  <1>2. k \in 1 .. n /\ stack[k] = m
    BY <1>1 DEF On
  <1>3. Without(m) = rest
    BY DEF Without, RemoveAt
  <1> HIDE DEF k, n
  <1>4. /\ left \in Seq(Modals) /\ Len(left) = k - 1
        /\ \A i \in 1 .. k - 1 : left[i] = stack[i]
    <2>1. k - 1 \in 0 .. Len(stack) /\ 1 \in Nat \ {0}
      BY <1>1, <1>2 DEF n
    <2>2. /\ left \in Seq(Modals) /\ Len(left) = IF 1 <= k - 1 THEN k - 1 - 1 + 1 ELSE 0
          /\ \A i \in 1 .. k - 1 - 1 + 1 : left[i] = stack[1 + i - 1]
      BY <2>1, PartOfStack
    <2> HIDE DEF left
    <2> QED BY <1>1, <1>2, <2>2
  <1>5. /\ right \in Seq(Modals) /\ Len(right) = n - k
        /\ \A i \in 1 .. n - k : right[i] = stack[k + i]
    <2>1. k + 1 \in Nat \ {0} /\ n \in 0 .. Len(stack)
      BY <1>1, <1>2 DEF n
    <2>2. /\ right \in Seq(Modals) /\ Len(right) = IF k + 1 <= n THEN n - (k + 1) + 1 ELSE 0
          /\ \A i \in 1 .. n - (k + 1) + 1 : right[i] = stack[k + 1 + i - 1]
      BY <2>1, PartOfStack
    <2> HIDE DEF right
    <2> QED BY <1>1, <1>2, <2>2
  <1> HIDE DEF left, right
  <1>6. rest \in Seq(Modals) /\ Len(rest) = n - 1 /\ DOMAIN rest = 1 .. n - 1
    <2>1. rest \in Seq(Modals) /\ Len(rest) = Len(left) + Len(right)
      BY <1>4, <1>5, ConcatProperties
    <2> HIDE DEF rest
    <2> QED BY <1>1, <1>2, <1>4, <1>5, <2>1
  <1>7. ASSUME NEW i \in 1 .. n - 1
        PROVE  rest[i] = stack[IF i < k THEN i ELSE i + 1]
    <2>1. \A j \in 1 .. Len(left) + Len(right) :
            rest[j] = IF j <= Len(left) THEN left[j] ELSE right[j - Len(left)]
      BY <1>4, <1>5, ConcatProperties
    <2> HIDE DEF rest
    <2>2. rest[i] = IF i <= k - 1 THEN left[i] ELSE right[i - (k - 1)]
      BY <1>1, <1>2, <1>4, <1>5, <2>1
    <2>3. CASE i < k
      BY <1>1, <1>2, <1>4, <2>2, <2>3
    <2>4. CASE ~(i < k)
      <3>1. i - (k - 1) \in 1 .. n - k /\ k + (i - (k - 1)) = i + 1
        BY <1>1, <1>2, <2>4
      <3>2. right[i - (k - 1)] = stack[i + 1]
        BY <1>5, <3>1
      <3> QED BY <1>1, <1>2, <2>2, <2>4, <3>2
    <2> QED BY <2>3, <2>4
  <1> HIDE DEF rest
  <1>8. Distinct(rest)
    <2> SUFFICES ASSUME NEW i \in 1 .. n - 1, NEW j \in 1 .. n - 1, rest[i] = rest[j] PROVE i = j
      BY <1>6 DEF Distinct
    <2>1. (IF i < k THEN i ELSE i + 1) = (IF j < k THEN j ELSE j + 1)
      <3>1. (IF i < k THEN i ELSE i + 1) \in DOMAIN stack /\ (IF j < k THEN j ELSE j + 1) \in DOMAIN stack
        BY <1>1, <1>2
      <3> QED BY <1>7, <3>1 DEF Distinct
    <2> QED BY <1>1, <1>2, <2>1
  <1>9. ASSUME NEW v \in On(rest) PROVE v \in On(stack) \ {m}
    <2>1. PICK i \in 1 .. n - 1 : v = rest[i]
      BY <1>6, <1>9 DEF On
    <2> DEFINE p == IF i < k THEN i ELSE i + 1
    <2>2. p \in DOMAIN stack /\ p # k
      BY <1>1, <1>2
    <2>3. v = stack[p]
      BY <1>7, <2>1
    <2> HIDE DEF p
    <2> QED BY <1>1, <1>2, <2>2, <2>3 DEF On, Distinct
  <1>10. ASSUME NEW v \in On(stack) \ {m} PROVE v \in On(rest)
    <2>1. PICK p \in 1 .. n : v = stack[p]
      BY <1>1 DEF On
    <2> DEFINE i == IF p < k THEN p ELSE p - 1
    <2>2. p # k
      BY <1>2, <2>1
    <2>3. i \in 1 .. n - 1 /\ (IF i < k THEN i ELSE i + 1) = p
      BY <1>1, <1>2, <2>2
    <2> HIDE DEF i
    <2>4. rest[i] = v
      BY <1>7, <2>1, <2>3
    <2> QED BY <1>6, <2>3, <2>4 DEF On
  <1>11. Len(rest) = Len(stack) - 1
    BY <1>6 DEF n
  <1> QED BY <1>3, <1>6, <1>8, <1>9, <1>10, <1>11

LEMMA StackInit == LockInit => StackInv
  BY DEF LockInit, StackInv, Distinct, On, Mounted

LEMMA StackNext == LockInv /\ StackInv /\ [LockNext]_lockVars => StackInv'
  <1> SUFFICES ASSUME LockInv, StackInv, [LockNext]_lockVars PROVE StackInv'
    OBVIOUS
  <1>0. /\ modal \in [Modals -> {"closed", "rendered", "mounted"}]
        /\ stack \in Seq(Modals) /\ Len(stack) \in Nat /\ DOMAIN stack = 1 .. Len(stack)
        /\ On(stack) = Mounted /\ Len(stack) = count /\ Distinct(stack)
    BY DEF LockInv, StackInv
  <1>1. ASSUME NEW m \in Modals, Render(m) PROVE StackInv'
    <2>1. modal' = [modal EXCEPT ![m] = "rendered"] /\ modal[m] = "closed" /\ UNCHANGED <<stack, count>>
      BY <1>1 DEF Render
    <2>2. Mounted' = Mounted
      BY <1>0, <2>1 DEF Mounted
    <2> QED BY <1>0, <2>1, <2>2 DEF StackInv, Distinct, On
  <1>2. ASSUME NEW m \in Modals, RunEffects(m) PROVE StackInv'
    <2>1. /\ modal' = [modal EXCEPT ![m] = "mounted"] /\ modal[m] = "rendered"
          /\ stack' = Append(stack, m) /\ count' = count + 1
      BY <1>2 DEF RunEffects
    <2>2. Mounted' = Mounted \union {m} /\ m \notin Mounted
      BY <1>0, <2>1 DEF Mounted
    <2>3. /\ stack' \in Seq(Modals) /\ Len(stack') = count' /\ DOMAIN stack' = 1 .. Len(stack) + 1
          /\ \A i \in 1 .. Len(stack) : stack'[i] = stack[i]
          /\ stack'[Len(stack) + 1] = m
      BY <1>0, <2>1
    <2>4. \A i \in 1 .. Len(stack) : stack[i] # m
      BY <1>0, <2>2 DEF On
    <2>5. Distinct(stack)'
      BY <1>0, <2>3, <2>4 DEF Distinct
    <2>6. On(stack)' = On(stack) \union {m}
      BY <1>0, <2>3 DEF On
    <2> QED BY <1>0, <2>2, <2>3, <2>5, <2>6 DEF StackInv
  <1>3. ASSUME NEW m \in Modals, Close(m) PROVE StackInv'
    <2>1. /\ modal' = [modal EXCEPT ![m] = "closed"] /\ modal[m] = "mounted"
          /\ stack' = Without(m) /\ count' = IF count > 1 THEN count - 1 ELSE 0
      BY <1>3 DEF Close
    <2>2. Mounted' = Mounted \ {m} /\ m \in Mounted
      BY <1>0, <2>1 DEF Mounted
    <2>3. /\ stack' \in Seq(Modals) /\ Len(stack') = Len(stack) - 1
          /\ Distinct(stack)' /\ On(stack)' = On(stack) \ {m}
      <3>1. m \in On(stack)
        BY <1>0, <2>2
      <3>2. /\ Without(m) \in Seq(Modals) /\ Len(Without(m)) = Len(stack) - 1
            /\ Distinct(Without(m)) /\ On(Without(m)) = On(stack) \ {m}
        BY <1>0, <3>1, ModalLeavesStack
      <3> QED BY <2>1, <3>2 DEF Distinct, On
    <2>4. count' = count - 1
      <3>1. DOMAIN stack # {}
        BY <1>0, <2>2 DEF On
      <3> QED BY <1>0, <2>1, <3>1
    <2> QED BY <1>0, <2>2, <2>3, <2>4 DEF StackInv
  <1>4. CASE UNCHANGED lockVars
    BY <1>4 DEF lockVars, StackInv, Mounted, Distinct, On
  <1> QED BY <1>1, <1>2, <1>3, <1>4 DEF LockNext

\* The numbers of every sheet, and of the ones the next render would measure.
SheetType(s) == {s.left, s.right, s.gap} \subseteq Nat /\ s.locked \in BOOLEAN
SheetInv == SheetType(sheet) /\ \A m \in Modals : SheetType(measured[m])

LEMMA SheetInit == LockInit => SheetInv
  <1>1. SheetType(NoSheet)
    BY DEF SheetType, NoSheet
  <1>2. LockInit => sheet = NoSheet /\ \A m \in Modals : measured[m] = NoSheet
    BY DEF LockInit
  <1> QED BY <1>1, <1>2 DEF SheetInv

LEMMA MeasureType == SheetType(sheet) => SheetType(Measure)
  <1> SUFFICES ASSUME SheetType(sheet) PROVE SheetType(Measure)
    OBVIOUS
  <1>1. sheet.gap \in Nat
    BY DEF SheetType
  <1>2. LeftMargin \in Nat /\ RightMargin \in Nat /\ BarShown \in Nat
    BY <1>1, LengthsAssumption DEF LeftMargin, RightMargin, BarShown
  <1>3. Gap \in Nat
    BY <1>2 DEF Gap
  <1> QED BY <1>2, <1>3 DEF Measure, SheetType, Locked

LEMMA SheetNext == LockInv /\ SheetInv /\ [LockNext]_lockVars => SheetInv'
  <1> SUFFICES ASSUME LockInv, SheetInv, [LockNext]_lockVars PROVE SheetInv'
    OBVIOUS
  <1>n. SheetType(NoSheet) /\ DOMAIN measured = Modals
    BY DEF SheetType, NoSheet, LockInv
  <1>1. ASSUME NEW m \in Modals, Render(m) PROVE SheetInv'
    <2>1. SheetType(Measure)
      BY MeasureType DEF SheetInv
    <2>2. sheet' = sheet /\ \A n \in Modals : measured'[n] = IF n = m THEN Measure ELSE measured[n]
      BY <1>n, <1>1 DEF Render
    <2> QED BY <2>1, <2>2 DEF SheetInv, SheetType
  <1>2. ASSUME NEW m \in Modals, RunEffects(m) PROVE SheetInv'
    BY <1>2 DEF RunEffects, Hold, SheetInv, SheetType
  <1>3. ASSUME NEW m \in Modals, Close(m) PROVE SheetInv'
    <2>1. /\ sheet' \in {NoSheet, sheet}
          /\ \A n \in Modals : measured'[n] = IF n = m THEN NoSheet ELSE measured[n]
      BY <1>n, <1>3 DEF Close
    <2> QED BY <1>n, <2>1 DEF SheetInv, SheetType
  <1>4. CASE UNCHANGED lockVars
    BY <1>4 DEF lockVars, SheetInv, SheetType
  <1> QED BY <1>1, <1>2, <1>3, <1>4 DEF LockNext

LEMMA LockTypes == LockInv /\ SheetInv => LockTypeOK
  <1> SUFFICES ASSUME LockInv, SheetInv PROVE LockTypeOK
    OBVIOUS
  <1>1. count \in Nat /\ holders \in Nat
    BY MountedFinite, FS_CardinalityType DEF LockInv
  <1>2. \A s \in {measured[m] : m \in Modals} \union {sheet} : SheetType(s)
    BY DEF SheetInv
  <1> QED BY <1>1, <1>2 DEF LockInv, LockTypeOK, SheetType

LEMMA LockStateMatches == LockInv /\ StackInv => LockMatchesModals
  <1> SUFFICES ASSUME LockInv, StackInv PROVE LockMatchesModals
    OBVIOUS
  <1>1. Locked <=> Mounted # {}
    BY LockInvImplies
  <1> QED BY <1>1 DEF LockInv, StackInv, On, LockMatchesModals

\* The page is locked while a modal is open and at no other time, and the
\* attribute, the sheet's holders and the stack agree on which are: however
\* many modals react-remove-scroll counts in and out, in any order.
THEOREM LockFollowsModals == Spec => []LockMatchesModals
  <1>1. Init => LockInv /\ StackInv
    BY LockInvInit, StackInit DEF Init
  <1>2. LockInv /\ StackInv /\ [Next]_pageVars => (LockInv /\ StackInv)'
    BY PageSteps, LockInvNext, StackNext
  <1> QED BY <1>1, <1>2, LockStateMatches, PTL DEF Spec

-----------------------------------------------------------------------------
(* The types of the three parts.                                           *)

LEMMA LoaderTypesNext ==
    ASSUME LoaderTypeOK, [LoaderNext]_loaderVars
    PROVE  LoaderTypeOK'
  <1> USE DEF LoaderTypeOK
  <1>1. CASE Load
    BY <1>1 DEF Load, ScriptLoads, ScriptFails, MainLoads, MainFails, Settles
  <1>2. ASSUME NEW e \in Editors, Mount(e) PROVE LoaderTypeOK'
    BY <1>2 DEF Mount
  <1>3. ASSUME NEW e \in Editors, Deliver(e) PROVE LoaderTypeOK'
    BY <1>3 DEF Deliver
  <1>4. ASSUME NEW e \in Editors, CreateEditor(e) PROVE LoaderTypeOK'
    BY <1>4 DEF CreateEditor
  <1>5. ASSUME NEW e \in Editors, Unmount(e) PROVE LoaderTypeOK'
    BY <1>5 DEF Unmount
  <1>6. CASE UNCHANGED loaderVars
    BY <1>6 DEF loaderVars
  <1> QED BY <1>1, <1>2, <1>3, <1>4, <1>5, <1>6 DEF LoaderNext

ConnInv == PollingInv /\ TokenInv /\ CardInv /\ FieldsInv /\ TimerInv

\* The page's state is of its type whatever its three parts do; in particular
\* Cancel of a device code never keeps a timer that has fired for the last
\* time, in any interleaving of flows.
THEOREM PageTypeCorrect == Spec => []PageTypeOK
  <1>1. Init => ConnInv /\ LoaderTypeOK /\ LockInv /\ SheetInv
    <2>1. LoaderInit => LoaderTypeOK
      BY DEF LoaderInit, LoaderTypeOK
    <2> QED BY <2>1, PollingInit, TokenInit, CardInit, FieldsInit, TimerInit, LockInvInit, SheetInit
            DEF Init, ConnInv
  <1>2. /\ ConnInv /\ LoaderTypeOK /\ LockInv /\ SheetInv /\ [Next]_pageVars
        => (ConnInv /\ LoaderTypeOK /\ LockInv /\ SheetInv)'
    BY PageSteps, PollingNext, TokenNext, CardNext, FieldsNext, TimerNext, LoaderTypesNext,
       LockInvNext, SheetNext DEF ConnInv, CardInv
  <1>3. ConnInv /\ LoaderTypeOK /\ LockInv /\ SheetInv => PageTypeOK
    BY ConnTypes, LockTypes DEF ConnInv, PageTypeOK
  <1> QED BY <1>1, <1>2, <1>3, PTL DEF Spec
=============================================================================
