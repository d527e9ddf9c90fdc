-------------------------- MODULE MCAuditEvidence --------------------------
(* The worlds of the runs: an honest issuer completely presented; a        *)
(* presenter who withholds, shuffles, alters; other keys' documents; an    *)
(* issuer that forks and equivocates before a witness; a log that holds    *)
(* several issuers' checkpoints, with their bodies or others'.             *)
EXTENDS AuditEvidence

Setting(nReceipts, nCheckpoints, nEpochs, nWindows, witnessed, liberties) ==
  [maxReceipts |-> nReceipts, maxCheckpoints |-> nCheckpoints, maxEpochs |-> nEpochs,
   maxWindows |-> nWindows, witnessed |-> witnessed, liberties |-> liberties]

MCScenarios ==
  [honest    |-> Setting(4, 3, 3, 3, FALSE, {"redact"}),
   presenter |-> Setting(3, 3, 3, 3, FALSE, {"doctor", "withhold", "shuffle"}),
   foreign   |-> Setting(2, 3, 2, 2, FALSE, {"foreign", "withhold"}),
   issuer    |-> Setting(2, 3, 2, 1, TRUE, {"fork", "equivocate", "withhold", "bare"}),
   log       |-> Setting(1, 3, 2, 1, TRUE, {"quiet", "foreign", "withhold", "bare"}),
   bodies    |-> Setting(1, 3, 2, 1, TRUE, {"foreign", "withhold", "swap"})]

(* Some epochs have no receipts; everything is presented.                  *)
MCQuiet == [quiet |-> Setting(2, 3, 3, 2, FALSE, {"quiet"})]
=============================================================================
