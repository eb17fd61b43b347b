------------------------------ MODULE ScrollLock ------------------------------
(***************************************************************************)
(* How the playground keeps the page behind a dialog from scrolling.  Each *)
(* modal, a dialog or an open select, counts itself in an attribute of the *)
(* body, holds the one style sheet that hides the scroll bar, and stands on*)
(* the stack whose top judges the wheel.  The sheet makes up for the width *)
(* of the bar: its numbers are measured when a modal is rendered and used  *)
(* when its effects run, if no other modal holds the sheet then.           *)
(***************************************************************************)
EXTENDS Naturals, SequencesExt

CONSTANTS Modals,   \* the dialogs and selects of the page
          Bar,      \* width of the page's scroll bar
          Margin    \* left and right margin of the body

ASSUME LengthsAssumption == Bar \in Nat /\ Margin \in Nat
ASSUME ModalsAssumption == IsFiniteSet(Modals)

VARIABLES
  modal,      \* per modal: "closed", "rendered" or "mounted"
  measured,   \* per modal: what its render measured, the numbers of its sheet
  count,      \* the attribute of the body, 0 when it has none
  holders,    \* modals that hold the sheet
  sheet,      \* the sheet in the document, or NoSheet
  stack,      \* the modals that lock, the newest last
  misfit      \* history: the sheet was measured under the sheet before it

lockVars == <<modal, measured, count, holders, sheet, stack, misfit>>

NoSheet == [left |-> 0, right |-> 0, gap |-> 0, locked |-> FALSE]
Mounted == {m \in Modals : modal[m] = "mounted"}

\* The rules of the sheet apply to a body with the attribute.
Locked == count > 0 /\ holders > 0

(* The layout.  A locked body has no scroll bar, no left margin, the gap as*)
(* its right margin and the measured margins as paddings.                  *)
LeftMargin == IF Locked THEN 0 ELSE Margin
RightMargin == IF Locked THEN sheet.gap ELSE Margin
BarShown == IF Locked THEN 0 ELSE Bar

\* What the content of the page cannot use of the window's width.
Taken ==
  BarShown + LeftMargin + RightMargin + (IF Locked THEN sheet.left + sheet.right ELSE 0)

Gap ==
  IF BarShown + RightMargin >= LeftMargin THEN BarShown + RightMargin - LeftMargin ELSE 0

Measure == [left |-> LeftMargin, right |-> RightMargin, gap |-> Gap, locked |-> Locked]

LockInit ==
  /\ modal = [m \in Modals |-> "closed"]
  /\ measured = [m \in Modals |-> NoSheet]
  /\ count = 0 /\ holders = 0
  /\ sheet = NoSheet
  /\ stack = <<>>
  /\ misfit = FALSE

\* One modal is rendered at a time; its effects run before the next render.
Render(m) ==
  /\ modal[m] = "closed"
  /\ \A n \in Modals : modal[n] # "rendered"
  /\ modal' = [modal EXCEPT ![m] = "rendered"]
  /\ measured' = [measured EXCEPT ![m] = Measure]
  /\ UNCHANGED <<count, holders, sheet, stack, misfit>>

HoldReplacing(m) ==
  /\ holders' = holders + 1
  /\ sheet' = measured[m]
  /\ misfit' = IF holders = 0 THEN measured[m].locked ELSE misfit

\* The first holder puts its sheet in the document, the others share it.
Hold(m) ==
  /\ holders' = holders + 1
  /\ sheet' = IF holders = 0 THEN measured[m] ELSE sheet
  /\ misfit' = IF holders = 0 THEN measured[m].locked ELSE misfit

RunEffects(m) ==
  /\ modal[m] = "rendered"
  /\ modal' = [modal EXCEPT ![m] = "mounted"]
  /\ Hold(m)
  /\ count' = count + 1
  /\ stack' = Append(stack, m)
  /\ UNCHANGED measured

\* The filter of the stack: no modal stands twice on it.
Without(m) == RemoveAt(stack, CHOOSE i \in DOMAIN stack : stack[i] = m)

\* A modal that closes, in any order, and in the commit that renders another.
CloseLosesCount(m) ==
  /\ modal[m] = "mounted"
  /\ modal' = [modal EXCEPT ![m] = "closed"]
  /\ measured' = [measured EXCEPT ![m] = NoSheet]
  /\ holders' = holders - 1
  /\ sheet' = IF holders = 1 THEN NoSheet ELSE sheet
  /\ count' = 0
  /\ stack' = Without(m)
  /\ misfit' = (misfit /\ holders > 1)

Close(m) ==
  /\ modal[m] = "mounted"
  /\ modal' = [modal EXCEPT ![m] = "closed"]
  /\ measured' = [measured EXCEPT ![m] = NoSheet]
  /\ holders' = holders - 1
  /\ sheet' = IF holders = 1 THEN NoSheet ELSE sheet
  /\ count' = IF count > 1 THEN count - 1 ELSE 0
  /\ stack' = Without(m)
  /\ misfit' = (misfit /\ holders > 1)

LockNext == \E m \in Modals : Render(m) \/ RunEffects(m) \/ Close(m)

LockTypeOK ==
  /\ modal \in [Modals -> {"closed", "rendered", "mounted"}]
  /\ \A s \in {measured[m] : m \in Modals} \union {sheet} :
       {s.left, s.right, s.gap} \subseteq Nat /\ s.locked \in BOOLEAN
  /\ count \in Nat /\ holders \in Nat
  /\ misfit \in BOOLEAN

(* The page is locked exactly while a modal is open, whatever the order in *)
(* which modals close: the attribute, the sheet and the stack agree, and   *)
(* the last one to leave unlocks the page.                                 *)
LockMatchesModals ==
  /\ Locked <=> Mounted # {}
  /\ count = Cardinality(Mounted)
  /\ {stack[i] : i \in DOMAIN stack} = Mounted /\ Len(stack) = count

(* Locking does not move the content of the page: it takes as much of the  *)
(* window's width as before, unless the modal whose sheet is used was      *)
(* rendered while another, which left before it, still locked the page.    *)
ContentKeepsWidth == misfit \/ Taken = Bar + 2 * Margin
=============================================================================
