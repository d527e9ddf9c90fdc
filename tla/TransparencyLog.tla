-------------------------- MODULE TransparencyLog --------------------------
(***************************************************************************)
(* The in-process transparency log of checkpoint/src/transparency.ts: a    *)
(* Merkle tree over the statements registered, an inclusion receipt per    *)
(* statement, and the tier-2 verification of one.                          *)
(*                                                                         *)
(* A hash is a free term.  The code separates leaves from interior nodes   *)
(* in no way, so a statement may be the very bytes of an interior node:    *)
(* Sha of a pair is the same whether a pair of hashes was joined or a      *)
(* statement of these 64 bytes was registered.                             *)
(*                                                                         *)
(* The loops of the code are recursive functions, of the number of passes. *)
(***************************************************************************)
EXTENDS Integers, FiniteSets, Sequences, SequencesExt

CONSTANTS Atoms,       \* statements that are not the bytes of a node
          MaxSize,     \* statements registered
          ProofsUpTo   \* size of a log to which statements like nodes are
                       \* added, and for which every proof is tried

VARIABLES leaves,      \* the statement hashes, in order
          receipts     \* the inclusion receipts handed out

logVars == <<leaves, receipts>>

Sha(bytes) == bytes
Zeros == <<>>
Statement(atom) == <<atom>>
MerkleParent(left, right) == Sha(<<left, right>>)

Plain == {Statement(a) : a \in Atoms}
Statements == Plain \cup (Plain \X Plain)

-----------------------------------------------------------------------------
(* The tree.  An odd last node is paired with itself.                      *)

PadEven(level) == IF Len(level) % 2 = 1 THEN Append(level, level[Len(level)]) ELSE level

(* Mutant of Above: an odd last node is left out.                          *)
AboveDropsOdd(level) ==
  [i \in 1 .. Len(level) \div 2 |-> MerkleParent(level[2 * i - 1], level[2 * i])]

Above(level) ==
  LET padded == PadEven(level)
  IN  [i \in 1 .. Len(padded) \div 2 |-> MerkleParent(padded[2 * i - 1], padded[2 * i])]

(* One pass: nothing is joined when a single node is left.                 *)
Raise(level) == IF Len(level) > 1 THEN Above(level) ELSE level

Levels(S) ==
  LET level[n \in 0 .. Len(S)] == IF n = 0 THEN S ELSE Raise(level[n - 1])
  IN  level

Height(S) ==
  CHOOSE h \in 0 .. Len(S) :
    /\ Len(Levels(S)[h]) <= 1
    /\ \A n \in 0 .. h - 1 : Len(Levels(S)[n]) > 1

MerkleRoot(S) == IF S = <<>> THEN Zeros ELSE Levels(S)[Height(S)][1]

(* Where a leaf's path crosses each level.                                 *)
Indices(leafIndex, top) ==
  LET idx[n \in 0 .. top] == IF n = 0 THEN leafIndex ELSE idx[n - 1] \div 2
  IN  idx

(* Mutant of Sibling: the sibling is always the node to the right.         *)
SiblingRight(padded, idx) == padded[IF idx + 2 <= Len(padded) THEN idx + 2 ELSE idx + 1]
Sibling(padded, idx) == IF idx % 2 = 0 THEN padded[idx + 2] ELSE padded[idx]

BuildInclusionProof(S, leafIndex) ==
  LET top == Height(S)
      idx == Indices(leafIndex, top)
  IN  [leafIndex |-> leafIndex,
       siblings |-> [n \in 1 .. top |-> Sibling(PadEven(Levels(S)[n - 1]), idx[n - 1])]]

(* leafIndex < 2 ** siblings.length: the index resolves to the root.       *)
ValidInclusionProof(proof) ==
  Indices(proof.leafIndex, Len(proof.siblings))[Len(proof.siblings)] = 0

Join(hash, sibling, idx) ==
  IF idx % 2 = 0 THEN MerkleParent(hash, sibling) ELSE MerkleParent(sibling, hash)

ApplyInclusionProof(leaf, proof) ==
  LET top == Len(proof.siblings)
      walk[n \in 0 .. top] ==
        IF n = 0 THEN leaf
        ELSE Join(walk[n - 1], proof.siblings[n], Indices(proof.leafIndex, top)[n - 1])
  IN  walk[top]

-----------------------------------------------------------------------------
(* The log.                                                                *)

LogInit == leaves = <<>> /\ receipts = {}

Register ==
  /\ Len(leaves) < MaxSize
  /\ \E statement \in IF Len(leaves) < ProofsUpTo THEN Statements ELSE Plain :
       LET grown == Append(leaves, Sha(statement))
       IN  /\ leaves' = grown
           /\ receipts' = receipts \cup
                {[statementHash |-> Sha(statement), index |-> Len(leaves),
                  treeHead |-> MerkleRoot(grown),
                  inclusionProof |-> BuildInclusionProof(grown, Len(leaves))]}

LogNext == Register
LogSpec == LogInit /\ [][LogNext]_logVars

(* What the log's key has signed: the receipt without its proof.           *)
Envelope(receipt) == <<receipt.statementHash, receipt.index, receipt.treeHead>>
VerifyInclusionEnvelope(receipt) == Envelope(receipt) \in {Envelope(r) : r \in receipts}

VerifyInclusion(receipt, candidate) ==
  /\ VerifyInclusionEnvelope(receipt)
  /\ receipt.statementHash = Sha(candidate)
  /\ ValidInclusionProof(receipt.inclusionProof)
  /\ receipt.inclusionProof.leafIndex = receipt.index
  /\ ApplyInclusionProof(Sha(candidate), receipt.inclusionProof) = receipt.treeHead

-----------------------------------------------------------------------------
(* Properties.                                                             *)

(* The path built for any leaf of a log of any size, the padded last ones  *)
(* included, leads to the root of that log (buildInclusionProof,           *)
(* applyInclusionProof, merkleRoot).                                       *)
EveryLeafIsProvable ==
  \A i \in 1 .. Len(leaves) :
    LET proof == BuildInclusionProof(leaves, i - 1)
    IN  /\ ValidInclusionProof(proof)
        /\ ApplyInclusionProof(leaves[i], proof) = MerkleRoot(leaves)

(* The terms a proof may be made of: every node of the tree, and the       *)
(* halves of those leaves that are the bytes of a node.                    *)
ProofTerms == UNION {Range(Levels(leaves)[n]) : n \in 0 .. Len(leaves)} \cup Plain
Proofs(index, length) ==
  {[leafIndex |-> index, siblings |-> s] : s \in [1 .. length -> ProofTerms]}

(* Whatever proof is attached to a receipt, and whatever candidate it is   *)
(* presented with, verifyInclusion accepts only the statement the log      *)
(* registered at that index; an inner node of the tree, or half a leaf, is *)
(* not a statement the log ever saw there.                                 *)
AcceptedWasRegistered ==
  Len(leaves) <= ProofsUpTo =>
    \A r \in receipts :
      \A length \in 0 .. 3, candidate \in ProofTerms :
        \A proof \in Proofs(r.index, length) :
          VerifyInclusion([r EXCEPT !.inclusionProof = proof], candidate)
          => leaves[r.index + 1] = Sha(candidate)

(* The log answers for its leaves: each can be proved to be where it is,   *)
(* and nothing else can.                                                   *)
LogAnswersForItsLeaves == EveryLeafIsProvable /\ AcceptedWasRegistered

(* A log has the head it had at an earlier size only when all that was     *)
(* registered since had been registered before: the padding hides a        *)
(* repetition (six statements and the last two of them again have one      *)
(* head), and never a statement.                                           *)
HeadsTellTheLogsApart ==
  \A m \in 1 .. Len(leaves) :
    MerkleRoot(SubSeq(leaves, 1, m)) = MerkleRoot(leaves)
    => \A i \in DOMAIN leaves : \E j \in 1 .. m : leaves[i] = leaves[j]
=============================================================================
