--------------------------- MODULE MCAuditWindows ---------------------------
(* Three consecutive windows of the stated run, and ways not to tile it.   *)
EXTENDS AuditWindows

Span(start, end) == [start |-> start, end |-> end]

Says(ref, amount, unit) == [ref |-> ref, amount |-> amount, unit |-> unit]
SaysOutcome(ref, amount, unit, settled) ==
  [ref |-> ref, amount |-> amount, unit |-> unit, settled |-> settled]

OneRow == {Says("x", 1, "u")}
Rows == {Says("x", 1, "u"), Says("x", 2, "v")}
MaybeNothing == {Says("x", 0, "u"), Says("x", 1, "u")}
Receipts == {SaysOutcome("x", 1, "u", TRUE), SaysOutcome("x", 2, "u", TRUE),
             SaysOutcome("x", 1, "u", FALSE), SaysOutcome("none", 1, "u", TRUE)}
OneReceipt == {SaysOutcome("x", 1, "u", TRUE)}
Effects == {Says("x", 1, "u"), Says("x", 2, "u"), Says("x", 1, "v")}
Decisions == {SaysOutcome("x", 1, "u", TRUE), SaysOutcome("x", 1, "u", FALSE)}

World(profile, says, claims, skew, tilings, start, end, nRows, nReceipts, misfile, refuse) ==
  [profile |-> profile, rowSays |-> says, receiptSays |-> claims, skew |-> skew, tilings |-> tilings,
   runStart |-> start, runEnd |-> end, maxRows |-> nRows, maxReceipts |-> nReceipts,
   mayMisfile |-> misfile, mayRefuse |-> refuse]

(* Windows of more than twice the allowance: some instants are near no     *)
(* edge.                                                                   *)
TwoWindows ==
  World("spend", Rows, Receipts, 1, {<<Span(0, 3), Span(3, 6)>>}, 0, 6, 2, 2, FALSE, FALSE)
(* Shorter than twice the allowance: a row may be near both edges.         *)
ThreeWindows ==
  World("spend", OneRow, OneReceipt, 2, {<<Span(0, 3), Span(3, 6), Span(6, 9)>>}, 0, 9,
        2, 3, FALSE, FALSE)
(* Of two windows of 2, one that tiles the run and ways not to; documents  *)
(* in the wrong window, handed in twice, refused.                          *)
BadDocuments ==
  World("spend", MaybeNothing, OneReceipt, 1,
        {<<Span(0, 2), Span(2, 4)>>, <<Span(0, 2), Span(3, 4)>>,
         <<Span(0, 3), Span(2, 4)>>, <<Span(0, 2), Span(2, 3)>>},
        0, 4, 2, 2, TRUE, TRUE)
(* Effects that are what was decided, of another content, of another class.*)
DecisionWindows ==
  World("decision", Effects, Decisions, 1, {<<Span(0, 3), Span(3, 6)>>}, 0, 6, 2, 2, FALSE, FALSE)

MCScenarios ==
  [decision |-> DecisionWindows, two |-> TwoWindows, three |-> ThreeWindows, bad |-> BadDocuments]
=============================================================================
