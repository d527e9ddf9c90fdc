------------------------------ MODULE MCDocuments ------------------------------
(***************************************************************************)
(* The documents, where they come from and whom they convince, each a      *)
(* world of its own: the octets of one value (DeterministicCbor), one      *)
(* document between its signer and its readers (SignedDocuments), the log  *)
(* of statements (TransparencyLog), the extract of a chain (BaseExtract),  *)
(* the roots of an audit (AuditTrust), the key at rest (KeySeal).  A       *)
(* behaviour is in one world; the variables of the others keep what they   *)
(* began with.                                                             *)
(***************************************************************************)
EXTENDS SignedDocuments, TransparencyLog, BaseExtract, AuditTrust, KeySeal

CONSTANTS
  Ais, Direct, Widths, SimpleAi, MaxSafe, MaxBytes, MaxDepth, MaxElements, MaxString,
  IllFormed, Values, Octets, MaxEdits

(* The heads of the dialect fit its octets, and the bounds are numbers.    *)
ASSUME WorldsAssumption ==
  /\ Direct + Len(Widths) <= Ais /\ SimpleAi + 2 < Ais
  /\ {MaxSize, ProofsUpTo, MaxSafe, MaxBytes, MaxDepth, MaxElements, MaxString, MaxEdits,
      MaxChanges, MaxBlocks, MaxReorgs, MaxTampers, MaxKeys, MaxSpends} \subseteq Nat

VARIABLES
  world,
  value, bytes, edits

cborVars == <<value, bytes, edits>>

Cbor == INSTANCE DeterministicCbor

-----------------------------------------------------------------------------
(* Values of a dialect of 64 octets, with heads of up to five of them,     *)
(* bounds small enough to be reached, and values at every boundary of      *)
(* both: maps whose keys have heads of different lengths, equal keys, maps *)
(* as keys, containers nested to the bound and beyond.                     *)

MCWidths == <<1, 2, 3, 4>>
MCIllFormed == {63}
MCOctets == {0, 1, 2, 8, 32, 40, 63}

Num(n) == <<"int", n>>
Text(octets) == <<"text", octets>>
Array(items) == <<"array", items>>
Map(entries) == <<"map", entries>>
Null == <<"simple", 2>>

Wrapped(v) == Array(<<v>>)
Deep == Wrapped(Wrapped(Wrapped(Num(0))))

MCValues ==
  {Num(n) : n \in {0, 1, 2, 63, 64, 4095, 4096, MaxSafe, MaxSafe + 1,
                   -1, -2, -3, -64, -65, -MaxSafe, -MaxSafe - 1}}
  \cup {Text(<<>>), Text(<<1>>), Text(<<1, 2>>), Text(<<1, 2, 3>>), Text(<<63>>),
        <<"bytes", <<63, 0>>>>, <<"bytes", <<0, 0, 0>>>>, Null, <<"simple", 0>>}
  \cup {Array(<<>>), Array(<<Num(2), Null>>), Array(<<Num(0), Num(1), Num(0), Num(1)>>),
        Deep, Wrapped(Deep), Map(<< <<Num(1), Deep>> >>)}
  \cup {Map(<<>>),
        Map(<< <<Num(1), Num(0)>>, <<Num(0), Num(1)>> >>),
        Map(<< <<Num(-1), Num(0)>>, <<Num(5), Num(1)>> >>),
        Map(<< <<Text(<<1>>), Num(0)>>, <<Num(-3), Null>> >>),
        Map(<< <<Num(1), Num(0)>>, <<Num(1), Num(1)>> >>),
        Map(<< <<Map(<< <<Num(1), Num(0)>> >>), Null>>,
               <<Map(<< <<Num(0), Num(1)>> >>), Null>> >>),
        Wrapped(Map(<< <<Num(0), Num(0)>>, <<Num(2), Num(2)>> >>)),
        Map(<< <<Num(1), Map(<< <<Num(0), Null>> >>)>> >>)}

(* A transfer to oneself, three transfers in one transaction, two of them  *)
(* the account's, and one of no amount.                                    *)
Transfer(from, to, amount) == [from |-> from, to |-> to, amount |-> amount]
MCTransactions ==
  {[id |-> "t1", by |-> "acc", transfers |-> <<Transfer("acc", "acc", 1)>>],
   [id |-> "t2", by |-> "other",
    transfers |-> <<Transfer("other", "acc", 1), Transfer("other", "shop", 1),
                    Transfer("acc", "other", 2)>>],
   [id |-> "t3", by |-> "acc", transfers |-> <<Transfer("acc", "other", 0)>>]}

-----------------------------------------------------------------------------
LogIdle == leaves = <<>> /\ receipts = {}
CborIdle == value = Null /\ bytes = <<>> /\ edits = 0
DocIdle == kind = "" /\ issued = {} /\ approvals = {} /\ shown = Missing /\ touched = {}
TrustIdle ==
  /\ input = [Presentation(FullPins) EXCEPT !.receipts = {}, !.manifest = Absent, !.extract = Absent]
  /\ tampers = 0

Init ==
  \/ world = "log" /\ LogInit /\ CborIdle /\ DocIdle /\ BaseInit /\ TrustIdle /\ KeyInit
  \/ world = "cbor" /\ Cbor!Init /\ LogIdle /\ DocIdle /\ BaseInit /\ TrustIdle /\ KeyInit
  \/ world = "document" /\ DocInit /\ LogIdle /\ CborIdle /\ BaseInit /\ TrustIdle /\ KeyInit
  \/ world = "trust" /\ TrustInit /\ LogIdle /\ CborIdle /\ DocIdle /\ BaseInit /\ KeyInit
  \/ /\ world \in {"base", "key"} /\ TrustIdle
     /\ BaseInit /\ KeyInit /\ LogIdle /\ CborIdle /\ DocIdle

Next ==
  /\ UNCHANGED world
  /\ \/ world = "log" /\ LogNext /\ UNCHANGED <<cborVars, docVars, baseVars, trustVars, keyVars>>
     \/ world = "cbor" /\ Cbor!Next /\ UNCHANGED <<logVars, docVars, baseVars, trustVars, keyVars>>
     \/ world = "document" /\ DocNext /\ UNCHANGED <<logVars, cborVars, baseVars, trustVars, keyVars>>
     \/ world = "base" /\ BaseNext /\ UNCHANGED <<logVars, cborVars, docVars, trustVars, keyVars>>
     \/ world = "trust" /\ TrustNext /\ UNCHANGED <<logVars, cborVars, docVars, baseVars, keyVars>>
     \/ world = "key" /\ KeyNext /\ UNCHANGED <<logVars, cborVars, docVars, baseVars, trustVars>>

Spec == Init /\ [][Next]_<<world, logVars, cborVars, docVars, baseVars, trustVars, keyVars>>

-----------------------------------------------------------------------------
(* The properties of the octets; those of the other worlds are stated in   *)
(* their modules and hold in every world.                                  *)

(* DeterministicCbor: no second spelling of a value is accepted.           *)
OneSpelling == world = "cbor" => Cbor!OneSpelling
(* DeterministicCbor: what is encoded is read back, or refused by name for *)
(* a bound; and what is accepted is within the bounds.                     *)
ReadWithinBounds == world = "cbor" => Cbor!RoundTrip /\ Cbor!AcceptedInBounds
=============================================================================
