----------------------------- MODULE BaseExtract -----------------------------
(***************************************************************************)
(* The extract of an account's USDC transfers that base-extract builds     *)
(* over JSON-RPC, one question after the other, while the chain goes on:   *)
(* blocks are added, the last one may be taken back, and transfers the     *)
(* operator sends through the same package wait to be mined.  The chain    *)
(* and its node are external, modelled from what fetchUsdcExtract asks.    *)
(***************************************************************************)
EXTENDS Integers, FiniteSets, Sequences, SequencesExt

CONSTANTS Account,       \* the address the extract is of
          Transactions,  \* what can be mined: [id, by, transfers], a sequence
          MaxBlocks,     \* blocks the chain grows to
          MaxReorgs,     \* times the last block is taken back
          ChainIds       \* what a node answers to eth_chainId

(* A transaction is known by its id.                                       *)
ASSUME TransactionsAssumption ==
  /\ IsFiniteSet(Transactions)
  /\ \A tx \in Transactions : IsFiniteSet(DOMAIN tx.transfers)
  /\ \A tx, other \in Transactions : tx.id = other.id => tx = other

VARIABLES chain,     \* the blocks, each the sequence of its transactions
          pending,   \* transactions sent and in no block
          reorgs,    \* blocks taken back so far
          pc,        \* what the reader waits for
          asked,     \* the range and the contract it was asked for
          answers,   \* what eth_getLogs said to either question
          queue,     \* blocks whose time it has still to ask for
          times,     \* the times it was told
          extract,   \* the body it returned
          settled    \* the range was mined when it began and has not changed

chainVars == <<chain, pending, reorgs>>
baseVars == <<chain, pending, reorgs, pc, asked, answers, queue, times, extract, settled>>

Nothing == [none |-> TRUE]

-----------------------------------------------------------------------------
(* The chain.  On Base a block's time follows from its number.             *)

TimeOf(n) == 2 * n

(* The transfers of a block, each at its place in it.                      *)
LogsIn(n, txs) ==
  UNION {{[blockNumber |-> n, logIndex |-> <<i, j>>, transactionHash |-> txs[i].id,
           from |-> txs[i].transfers[j].from, to |-> txs[i].transfers[j].to,
           amount |-> txs[i].transfers[j].amount] : j \in DOMAIN txs[i].transfers} :
         i \in DOMAIN txs}

LogsOf(range) == UNION {LogsIn(i, chain[i]) : i \in (range.from..range.to) \cap DOMAIN chain}

(* eth_getLogs: what the node has of the range now, in an order of its own. *)
NodeHas(range, side) == {log \in LogsOf(range) : log[side] = Account}
GetLogs(range, side) == SetToSeq(NodeHas(range, side))

Mined == UNION {ToSet(chain[i]) : i \in DOMAIN chain}

(* Somebody else sends.                                                    *)
Arrive ==
  /\ \E tx \in Transactions \ (Mined \cup pending) :
       tx.by # Account /\ pending' = pending \cup {tx}
  /\ UNCHANGED <<chain, reorgs, pc, asked, answers, queue, times, extract, settled>>

Mine ==
  /\ Len(chain) < MaxBlocks
  /\ \E txs \in SUBSET pending : \E order \in SetToSeqs(txs) :
       /\ chain' = Append(chain, order)
       /\ pending' = pending \ txs
  /\ UNCHANGED <<reorgs, pc, asked, answers, queue, times, extract, settled>>

Reorg ==
  /\ reorgs < MaxReorgs /\ chain # <<>>
  /\ chain' = Front(chain)
  /\ pending' = pending \cup ToSet(Last(chain))
  /\ reorgs' = reorgs + 1
  /\ settled' = (settled /\ Len(chain) > asked.to)
  /\ UNCHANGED <<pc, asked, answers, queue, times, extract>>

-----------------------------------------------------------------------------
(* The write side: a dry run unless the call and the environment both ask  *)
(* for the broadcast, and never with a key from the command line.          *)

ArgvRequestsKey(argv) == "--key" \in argv
BroadcastAllowed(argv, env) == "--broadcast" \in argv /\ env.allow
LoadWriteKey(env) == env.key

ExecuteWrite(argv, env, send) ==
  CASE ArgvRequestsKey(argv) -> "refused"
    [] ~BroadcastAllowed(argv, env) -> "dry-run"
    [] ~LoadWriteKey(env) -> "refused"
    [] ~send -> "refused"
    [] OTHER -> "broadcast"

(* A sender that throws may have been heard.                               *)
Write ==
  /\ \E tx \in Transactions \ (Mined \cup pending), argv \in SUBSET {"--key", "--broadcast"},
        env \in [allow : BOOLEAN, key : BOOLEAN], send \in BOOLEAN :
       /\ tx.by = Account
       /\ ExecuteWrite(argv, env, send) = "broadcast"
       /\ pending' = pending \cup {tx}
  /\ UNCHANGED <<chain, reorgs, pc, asked, answers, queue, times, extract, settled>>

-----------------------------------------------------------------------------
(* The reader.                                                             *)

Contracts == {"known", "named", "unknown"}
IsInverted(range) == range.from > range.to

Fail ==
  /\ pc' = "failed"
  /\ UNCHANGED <<asked, answers, queue, times, extract, settled>>

(* An unlisted contract needs a rail name and is not asked for its chain.  *)
Fetch ==
  /\ pc = "idle"
  /\ \E from \in 1..MaxBlocks, to \in 1..MaxBlocks, usdc \in Contracts :
       LET range == [from |-> from, to |-> to]
       IN  IF IsInverted(range) \/ usdc = "unknown" THEN Fail
           ELSE /\ pc' = IF usdc = "known" THEN "chain" ELSE "logs"
                /\ asked' = range
                /\ settled' = (to <= Len(chain))
                /\ UNCHANGED <<answers, queue, times, extract>>
  /\ UNCHANGED chainVars

ChainId ==
  /\ pc = "chain"
  /\ \E answer \in ChainIds :
       IF answer # "base" THEN Fail
       ELSE pc' = "logs" /\ UNCHANGED <<asked, answers, queue, times, extract, settled>>
  /\ UNCHANGED chainVars

(* The elements of a sequence at some of its places, in their order.       *)
Nth(places, n) == CHOOSE i \in places : Cardinality({j \in places : j <= i}) = n
Kept(seq, places) == [n \in 1..Cardinality(places) |-> seq[Nth(places, n)]]

(* Mutant of DedupeLogs: a transfer to oneself is answered to both.        *)
DedupeLogsNot(logs) == logs

DedupeLogs(logs) ==
  LET key(i) == <<logs[i].transactionHash, logs[i].logIndex>>
  IN  Kept(logs, {i \in DOMAIN logs : \A j \in 1..(i - 1) : key(j) # key(i)})

Logs(both) == DedupeLogs(both.from \o both.to)

(* The boundary blocks first, then the transfers' own, each once.          *)
BlocksToAsk(logs) ==
  LET numbers == <<asked.from, asked.to>> \o [i \in DOMAIN logs |-> logs[i].blockNumber]
  IN  Kept(numbers, {i \in DOMAIN numbers : \A j \in 1..(i - 1) : numbers[j] # numbers[i]})

(* The two questions are asked at once and answered in either order.       *)
AnswerLogs ==
  /\ pc = "logs"
  /\ \E side \in {"from", "to"} \ DOMAIN answers :
       LET both == [s \in DOMAIN answers \cup {side} |->
                      IF s = side THEN GetLogs(asked, side) ELSE answers[s]]
       IN  /\ answers' = both
           /\ IF DOMAIN both = {"from", "to"}
              THEN pc' = "blocks" /\ queue' = BlocksToAsk(Logs(both))
              ELSE UNCHANGED <<pc, queue>>
  /\ UNCHANGED <<asked, times, extract, settled>>
  /\ UNCHANGED chainVars

SettlementRef(log) == <<log.transactionHash, log.logIndex>>
InvolvesAccount(log) == Account \in {log.from, log.to}

LogsToExtract(logs, known) ==
  [windowStartMs |-> known[asked.from] * 1000,
   windowEndMs |-> known[asked.to] * 1000 + 1,
   settlements |-> LET mine == Kept(logs, {i \in DOMAIN logs : InvolvesAccount(logs[i])})
                   IN  [i \in DOMAIN mine |->
                          [ref |-> SettlementRef(mine[i]), amount |-> mine[i].amount,
                           timestampMs |-> known[mine[i].blockNumber] * 1000]]]

(* One block after the other; the body follows the last without a wait.    *)
AnswerBlock ==
  /\ pc = "blocks"
  /\ LET n == Head(queue)
         told == [b \in DOMAIN times \cup {n} |-> IF b = n THEN TimeOf(n) ELSE times[b]]
     IN  IF n > Len(chain) THEN Fail
         ELSE /\ queue' = Tail(queue)
              /\ times' = told
              /\ IF Tail(queue) = <<>>
                 THEN pc' = "done" /\ extract' = LogsToExtract(Logs(answers), told)
                 ELSE UNCHANGED <<pc, extract>>
              /\ UNCHANGED <<asked, answers, settled>>
  /\ UNCHANGED chainVars

(* A question that is not answered, or not with what was asked for.        *)
RpcFails == pc \in {"chain", "logs", "blocks"} /\ Fail /\ UNCHANGED chainVars

BaseInit ==
  /\ chain = <<>> /\ pending = {} /\ reorgs = 0
  /\ pc = "idle" /\ asked = [from |-> 1, to |-> 1] /\ answers = <<>>
  /\ queue = <<>> /\ times = <<>> /\ extract = Nothing /\ settled = FALSE

BaseNext ==
  \/ Arrive \/ Write \/ Mine \/ Reorg
  \/ Fetch \/ ChainId \/ AnswerLogs \/ AnswerBlock \/ RpcFails

BaseSpec == BaseInit /\ [][BaseNext]_baseVars

-----------------------------------------------------------------------------
(* The rows a range should have: one for each transfer to or from the      *)
(* account, by its place.                                                  *)
TransfersOf(range) ==
  {[ref |-> SettlementRef(log), amount |-> log.amount,
    timestampMs |-> TimeOf(log.blockNumber) * 1000] : log \in {l \in LogsOf(range) : InvolvesAccount(l)}}

(* When the whole range was mined before the first question and no block   *)
(* of it was taken back, the extract has every transfer of the account in  *)
(* it, once, whichever question answered it and in whatever order, and all *)
(* of them inside the window it declares (fetchUsdcExtract, dedupeLogs,    *)
(* logsToExtract).                                                         *)
SettledRangeIsExact ==
  pc = "done" /\ settled =>
    /\ ToSet(extract.settlements) = TransfersOf(asked)
    /\ Len(extract.settlements) = Cardinality(TransfersOf(asked))
    /\ \A i \in DOMAIN extract.settlements :
         /\ extract.windowStartMs <= extract.settlements[i].timestampMs
         /\ extract.settlements[i].timestampMs < extract.windowEndMs
=============================================================================
