------------------------- MODULE PaymentGate_proofs -------------------------
(***************************************************************************)
(* Proofs about PolicyEngine and PaymentGate, for every policy, every set  *)
(* of requests, terms, callers and clock readings: the engine's invariant, *)
(* that it survives settlements through the gate, and that what the gate   *)
(* signs and records stands for authority that is held.                    *)
(***************************************************************************)
EXTENDS PaymentGate, Totals_proofs, SequenceTheorems

-----------------------------------------------------------------------------
(* The engine.                                                             *)

(* Decision ids are never used twice, and what can be or was paid under    *)
(* one is what its reserve holds.                                          *)
IdsInv ==
  /\ \A r \in reserves : r.id < nextDecision
  /\ \A r, s \in reserves : r.id = s.id => r = s
  /\ \A d \in decisions :
       /\ d.id < nextDecision
       /\ \E r \in reserves : r.id = d.id /\ r.amount = d.req.amount
  /\ \A id \in DecisionIds : spentOn[id] # 0 => id \in consumedDecisions

(* Where a reserve was taken shows in its time: an earlier window's is     *)
(* older than the current window's start, however the clocks ran.  This is *)
(* why comparing the two times, which is all release can do, is enough.    *)
WindowInv ==
  /\ reserves # {} => counters.windowStartMs # 0
  /\ \A r \in reserves :
       /\ r.win <= windowNo
       /\ r.atMs < counters.windowStartMs + WindowMs
       /\ r.win < windowNo => r.atMs < counters.windowStartMs

CountInv ==
  /\ IsFiniteSet(reserves)
  /\ NoPhantomRoom
  /\ WindowCap
  /\ counters.allowedCount <= MaxPayments
  /\ counters.allowedSum <= MaxCumulative

IInv ==
  /\ TypeOK
  /\ IdsInv
  /\ OneReservePerNonce
  /\ PaidAsReserved
  /\ WindowInv
  /\ CountInv

(* What the operators of PolicyRules return.                               *)
LEMMA TakeTyped ==
  ASSUME NEW c \in Counters, NEW amount \in Nat
  PROVE  Take(c, amount) \in Counters
  BY DEF Counters, Take

LEMMA RollWindowTyped ==
  ASSUME NEW c \in Counters, NEW now \in Nat \ {0}
  PROVE  RollWindow(c, now) \in Counters /\ RollWindow(c, now).windowStartMs # 0
  BY DEF Counters, RollWindow, WindowIsOver

LEMMA GiveBackTyped ==
  ASSUME NEW c \in Counters, NEW amount \in Nat, NEW at \in Nat
  PROVE  /\ GiveBack(c, amount, at) \in Counters
         /\ GiveBack(c, amount, at).windowStartMs = c.windowStartMs
  BY DEF Counters, GiveBack

(* What an admitted request brings.                                        *)
LEMMA RequestTyped ==
  ASSUME NEW req \in Requests, NEW now \in Times
  PROVE  /\ req.nonce \in STRING
         /\ req.amount \in Int
         /\ now \in Nat \ {0}
         /\ now + TtlMs \in Nat
  BY EngineAssumption

(* Finitely many reserves, with natural amounts: also those of a window.   *)
LEMMA WindowTyped ==
  ASSUME NEW rs \in SUBSET Reserve, IsFiniteSet(rs), NEW w
  PROVE  LET here == {r \in rs : r.win = w}
         IN  /\ IsFiniteSet(here) /\ HasAmounts(here)
             /\ Cardinality(here) \in Nat /\ Total(here) \in Nat
  <1> DEFINE here == {r \in rs : r.win = w}
  <1>1. HasAmounts(rs)
    BY DEF HasAmounts, Reserve
  <1>2. here \in SUBSET rs
    OBVIOUS
  <1>3. HasAmounts(here)
    BY <1>1, <1>2, SubsetHasAmounts
  <1>4. QED
    BY <1>3, CoinsFinite, FS_CardinalityType DEF HasAmounts

(* What is left of a window is no more than the window was.                *)
LEMMA WindowShrinks ==
  ASSUME NEW S, HasAmounts(S), NEW T \in SUBSET S
  PROVE  /\ Cardinality(T) <= Cardinality(S) /\ Cardinality(S) \in Nat
         /\ Total(T) <= Total(S) /\ Total(S) \in Nat
  BY TotalOfPart, CoinsFinite, FS_Subset, FS_CardinalityType DEF HasAmounts

(* WindowCap follows from the counters for the current window, and for an  *)
(* earlier one from the state before: nothing joins it any more.           *)
LEMMA CapKept ==
  ASSUME TypeOK, CountInv, TypeOK', IsFiniteSet(reserves'), NoPhantomRoom',
         counters'.allowedCount <= MaxPayments, counters'.allowedSum <= MaxCumulative,
         windowNo' \in {windowNo, windowNo + 1},
         \A r \in reserves' \ reserves : r.win = windowNo'
  PROVE  CountInv'
  <1> SUFFICES WindowCap'
    BY DEF CountInv
  <1> SUFFICES ASSUME NEW w \in 0..windowNo'
               PROVE  /\ Cardinality(InWindow(w)') <= MaxPayments
                      /\ Total(InWindow(w)') <= MaxCumulative
    BY DEF WindowCap, InWindow
  <1>1. /\ windowNo \in Nat /\ windowNo' \in Nat
        /\ reserves \in SUBSET Reserve /\ reserves' \in SUBSET Reserve
        /\ counters'.allowedCount \in Nat /\ counters'.allowedSum \in Nat
    BY DEF TypeOK, Counters
  <1>2. Cardinality(InWindow(w)') \in Nat /\ Total(InWindow(w)') \in Nat
    BY <1>1, WindowTyped DEF InWindow
  <1>3. CASE w = windowNo'
    <2>1. InWindow(w)' = InWindow(windowNo)'
      BY <1>3 DEF InWindow
    <2>2. QED
      BY <1>1, <1>2, <2>1, PolicyAssumption DEF NoPhantomRoom
  <1>4. CASE w # windowNo'
    <2>1. w \in 0..windowNo
      BY <1>1, <1>4
    <2>2. /\ Cardinality(InWindow(w)) <= MaxPayments
          /\ Total(InWindow(w)) <= MaxCumulative
      BY <2>1 DEF CountInv, WindowCap
    <2>3. InWindow(w)' \in SUBSET InWindow(w)
      BY <1>4 DEF InWindow
    <2>4. HasAmounts(InWindow(w))
      BY <1>1, WindowTyped DEF CountInv, InWindow
    <2>5. /\ Cardinality(InWindow(w)') <= Cardinality(InWindow(w))
          /\ Total(InWindow(w)') <= Total(InWindow(w))
          /\ Cardinality(InWindow(w)) \in Nat /\ Total(InWindow(w)) \in Nat
      BY <2>3, <2>4, WindowShrinks
    <2>6. QED
      BY <1>2, <2>2, <2>5, PolicyAssumption
  <1>5. QED
    BY <1>3, <1>4

LEMMA InitInv == Init => IInv
  <1> SUFFICES ASSUME Init PROVE IInv
    OBVIOUS
  <1> USE DEF Init
  <1>1. TypeOK
    BY DEF TypeOK, FreshCounters, Counters
  <1>2. IdsInv /\ OneReservePerNonce /\ PaidAsReserved /\ WindowInv
    BY DEF IdsInv, OneReservePerNonce, PaidAsReserved, WindowInv
  <1>3. InWindow(windowNo) = {}
    BY DEF InWindow
  <1>4. CountInv
    <2>1. IsFiniteSet(reserves) /\ NoPhantomRoom
      BY <1>3, FS_EmptySet, TotalOfNone DEF NoPhantomRoom, FreshCounters
    <2>2. \A w : InWindow(w) = {}
      BY DEF InWindow
    <2>3. WindowCap
      BY <2>2, FS_EmptySet, TotalOfNone, PolicyAssumption DEF WindowCap
    <2>4. QED
      BY <2>1, <2>3, PolicyAssumption DEF CountInv, FreshCounters
  <1>5. QED
    BY <1>1, <1>2, <1>4 DEF IInv

-----------------------------------------------------------------------------
(* What may go with a reserve: a caller is handed the decision, or a gate  *)
(* consumes and pays it out at once.                                       *)
GoesWith(req) ==
  /\ \A d \in decisions' \ decisions :
       /\ d \in [id : Nat \ {0}, req : Requests, expiryMs : Nat]
       /\ d.id = nextDecision
       /\ d.req.amount = req.amount
  /\ \/ consumedDecisions' = consumedDecisions
     \/ consumedDecisions' = consumedDecisions \cup {nextDecision}
  /\ spentOn' \in [DecisionIds -> Int]
  /\ \A id \in DecisionIds :
       \/ spentOn'[id] = spentOn[id]
       \/ /\ id = nextDecision
          /\ id \in consumedDecisions'
          /\ spentOn'[id] = req.amount

(* What an allow takes, whoever asked.                                     *)
LEMMA ReservedInv ==
  ASSUME IInv, NEW req, NEW now \in Times, Reserved(req, now),
         req.nonce \in STRING, req.amount \in Int, GoesWith(req)
  PROVE  IInv'
  <1> DEFINE opens  == WindowIsOver(counters, now)
             rolled == RollWindow(counters, now)
             win    == IF opens THEN windowNo + 1 ELSE windowNo
             new    == [id |-> nextDecision, nonce |-> req.nonce,
                        amount |-> req.amount, atMs |-> now, win |-> win]
  <1>1. /\ nextDecision <= MaxDecisions
        /\ Admissible(req)
        /\ HasRoom(rolled, req.amount)
        /\ counters' = Take(rolled, req.amount)
        /\ usedNonces' = usedNonces \cup {req.nonce}
        /\ nextDecision' = nextDecision + 1
        /\ reserves' = reserves \cup {new}
        /\ windowNo' = win
    BY DEF Reserved
  <1>2. /\ req.nonce \in STRING
        /\ req.amount \in Nat \ {0}
        /\ now \in Nat \ {0}
        /\ req.nonce \notin usedNonces
    BY <1>1, EngineAssumption DEF Admissible
  <1>3. /\ counters \in Counters
        /\ usedNonces \in SUBSET STRING
        /\ consumedDecisions \in SUBSET (Nat \ {0})
        /\ nextDecision \in Nat \ {0}
        /\ reserves \in SUBSET Reserve
        /\ windowNo \in Nat
    BY DEF IInv, TypeOK
  <1>4. /\ rolled \in Counters
        /\ rolled.windowStartMs # 0
        /\ counters' \in Counters
        /\ counters'.windowStartMs = rolled.windowStartMs
        /\ counters'.allowedCount = rolled.allowedCount + 1
        /\ counters'.allowedSum = rolled.allowedSum + req.amount
    <2>1. rolled \in Counters /\ rolled.windowStartMs # 0
      BY <1>2, <1>3, RollWindowTyped
    <2> HIDE DEF rolled
    <2>2. Take(rolled, req.amount) \in Counters
      BY <1>2, <2>1, TakeTyped
    <2>3. QED
      BY <1>1, <2>1, <2>2 DEF Take
  <1>5. new \in Reserve /\ win \in Nat
    BY <1>2, <1>3 DEF Reserve
  <1>6. TypeOK'
    <2> HIDE DEF new, win, opens
    <2>2. decisions' \subseteq [id : Nat \ {0}, req : Requests, expiryMs : Nat]
      BY DEF GoesWith, IInv, TypeOK
    <2>3. reserves' \in SUBSET Reserve /\ windowNo' \in Nat
      BY <1>1, <1>3, <1>5
    <2>4. usedNonces' \in SUBSET STRING
      <3>1. {req.nonce} \in SUBSET STRING
        BY <1>2
      <3>2. QED
        BY <1>1, <1>3, <3>1, Zenon
    <2>5. consumedDecisions' \in SUBSET (Nat \ {0}) /\ nextDecision' \in Nat \ {0}
      <3>1. consumedDecisions \cup {nextDecision} \in SUBSET (Nat \ {0})
        BY <1>3
      <3>2. consumedDecisions' \in SUBSET (Nat \ {0})
        BY <1>3, <3>1, Zenon DEF GoesWith
      <3>3. QED
        BY <1>1, <1>3, <3>2
    <2>6. QED
      BY <1>4, <2>2, <2>3, <2>4, <2>5 DEF GoesWith, TypeOK, DecisionIds
  <1>7. IdsInv'
    <2>1. \A r \in reserves : r.id \in Nat /\ r.id < nextDecision
      BY <1>3 DEF IInv, IdsInv, Reserve
    <2>2. \A d \in decisions : d.id \in Nat
      BY DEF IInv, TypeOK
    <2>3. new.id = nextDecision /\ new.amount = req.amount
      OBVIOUS
    <2> HIDE DEF new, win, opens
    <2>4. \A r \in reserves' : r.id < nextDecision'
      BY <1>1, <1>3, <2>1, <2>3
    <2>5. \A r, s \in reserves' : r.id = s.id => r = s
      BY <1>1, <1>3, <2>1, <2>3 DEF IInv, IdsInv
    <2>6. \A d \in decisions' :
            /\ d.id < nextDecision'
            /\ \E r \in reserves' : r.id = d.id /\ r.amount = d.req.amount
      BY <1>1, <1>3, <2>2, <2>3 DEF GoesWith, IInv, IdsInv
    <2>7. \A id \in DecisionIds : spentOn'[id] # 0 => id \in consumedDecisions'
      BY DEF GoesWith, IInv, IdsInv
    <2>8. QED
      BY <2>4, <2>5, <2>6, <2>7 DEF IdsInv, DecisionIds
  <1>8. OneReservePerNonce'
    <2>1. new.nonce = req.nonce
      OBVIOUS
    <2> HIDE DEF new, win
    <2>2. QED
      BY <1>1, <1>2, <2>1 DEF IInv, OneReservePerNonce
  <1>9. PaidAsReserved'
    <2>1. new.id = nextDecision /\ new.amount = req.amount
      OBVIOUS
    <2> HIDE DEF new, win
    <2>2. QED
      BY <1>1, <2>1 DEF GoesWith, IInv, PaidAsReserved, DecisionIds
  <1>10. WindowInv'
    <2>1. new.win = win /\ new.atMs = now
      OBVIOUS
    <2>2. ASSUME NEW r \in reserves
          PROVE  /\ r.win \in Nat /\ r.atMs \in Nat
                 /\ r.win <= windowNo
                 /\ r.atMs < counters.windowStartMs + WindowMs
                 /\ r.win < windowNo => r.atMs < counters.windowStartMs
                 /\ counters.windowStartMs # 0
      BY <1>3 DEF IInv, WindowInv, Reserve
    <2>3. counters.windowStartMs \in Nat /\ WindowMs \in Nat \ {0}
      BY <1>3, PolicyAssumption DEF Counters
    <2>4. CASE opens
      <3>1. win = windowNo + 1 /\ counters'.windowStartMs = now
        BY <1>4, <2>4 DEF RollWindow
      <3>2. ASSUME NEW r \in reserves
            PROVE  /\ r.win <= win
                   /\ r.atMs < now + WindowMs
                   /\ r.win < win => r.atMs < now
        BY <1>2, <1>3, <2>2, <2>3, <2>4, <3>1 DEF WindowIsOver
      <3> HIDE DEF new, win
      <3>3. QED
        BY <1>1, <1>2, <1>5, <2>1, <2>3, <3>1, <3>2 DEF WindowInv
    <2>5. CASE ~opens
      <3>1. win = windowNo /\ counters'.windowStartMs = counters.windowStartMs
        BY <1>4, <2>5 DEF RollWindow
      <3>2. counters.windowStartMs # 0 /\ now < counters.windowStartMs + WindowMs
        BY <1>2, <2>3, <2>5 DEF WindowIsOver
      <3> HIDE DEF new, win
      <3>3. QED
        BY <1>1, <1>3, <2>1, <2>2, <3>1, <3>2 DEF WindowInv
    <2>6. QED
      BY <2>4, <2>5
  <1>11. CountInv'
    <2> DEFINE old == InWindow(win)
    <2>1. IsFiniteSet(reserves) /\ IsFiniteSet(reserves')
      BY <1>1, FS_AddElement DEF IInv, CountInv
    <2>2. /\ IsFiniteSet(old) /\ HasAmounts(old)
          /\ Cardinality(old) \in Nat /\ Total(old) \in Nat
      BY <1>3, <2>1, WindowTyped DEF InWindow
    <2>3. InWindow(windowNo)' = old \cup {new}
      BY <1>1 DEF InWindow
    <2>4. new \notin old /\ new.amount = req.amount /\ new.win = win
      <3>1. \A r \in reserves : r.id # new.id
        BY <1>3 DEF IInv, IdsInv, Reserve
      <3>2. QED
        BY <3>1 DEF InWindow
    <2>5. /\ Cardinality(InWindow(windowNo)') = Cardinality(old) + 1
          /\ Total(InWindow(windowNo)') = Total(old) + req.amount
      <3> HIDE DEF old, new
      <3>1. Cardinality(old \cup {new}) = Cardinality(old) + 1
        BY <2>2, <2>4, FS_AddElement
      <3>2. Total(old \cup {new}) = Total(old) + new.amount
        BY <1>2, <2>2, <2>4, TotalAdds
      <3>3. QED
        BY <2>3, <2>4, <3>1, <3>2
    <2>6. Cardinality(old) <= rolled.allowedCount /\ Total(old) <= rolled.allowedSum
      <3>1. CASE opens
        <4>1. old = {}
          BY <1>3, <3>1 DEF IInv, WindowInv, Reserve, InWindow
        <4>2. rolled.allowedCount = 0 /\ rolled.allowedSum = 0
          BY <3>1 DEF RollWindow
        <4> HIDE DEF old, rolled
        <4>3. QED
          BY <4>1, <4>2, FS_EmptySet, TotalOfNone
      <3>2. CASE ~opens
        <4>1. old = InWindow(windowNo) /\ rolled = counters
          BY <3>2 DEF RollWindow
        <4>2. NoPhantomRoom
          BY DEF IInv, CountInv
        <4> HIDE DEF old, rolled
        <4>3. QED
          BY <4>1, <4>2 DEF NoPhantomRoom
      <3>3. QED
        BY <3>1, <3>2
    <2>7. NoPhantomRoom'
      <3> HIDE DEF old, rolled, new
      <3>1. rolled.allowedCount \in Nat /\ rolled.allowedSum \in Nat
        BY <1>4 DEF Counters
      <3>2. QED
        BY <1>2, <1>4, <2>2, <2>5, <2>6, <3>1 DEF NoPhantomRoom
    <2>8. /\ counters'.allowedCount <= MaxPayments
          /\ counters'.allowedSum <= MaxCumulative
      <3> HIDE DEF rolled
      <3>1. QED
        BY <1>1, <1>2, <1>4, PolicyAssumption DEF HasRoom, Counters
    <2>9. windowNo' \in {windowNo, windowNo + 1} /\ \A r \in reserves' \ reserves : r.win = windowNo'
      <3> HIDE DEF new, opens
      <3>1. QED
        BY <1>1, <2>4
    <2>10. QED
      BY <1>6, <2>1, <2>7, <2>8, <2>9, CapKept DEF IInv
  <1>12. QED
    BY <1>6, <1>7, <1>8, <1>9, <1>10, <1>11 DEF IInv

(* evaluate, when it allows.                                               *)
LEMMA EvaluateAllowInv ==
  ASSUME IInv, NEW req \in Requests, NEW now \in Times, EvaluateAllow(req, now)
  PROVE  IInv'
  <1> DEFINE dec == [id |-> nextDecision, req |-> req, expiryMs |-> now + TtlMs]
  <1>1. /\ Reserved(req, now)
        /\ decisions' = decisions \cup {dec}
        /\ UNCHANGED <<consumedDecisions, spentOn>>
    BY DEF EvaluateAllow
  <1>2. dec \in [id : Nat \ {0}, req : Requests, expiryMs : Nat]
    BY RequestTyped DEF IInv, TypeOK
  <1>3. dec.id = nextDecision /\ dec.req.amount = req.amount
    OBVIOUS
  <1>4. spentOn \in [DecisionIds -> Int] /\ req.nonce \in STRING /\ req.amount \in Int
    BY RequestTyped DEF IInv, TypeOK
  <1> HIDE DEF dec
  <1>5. GoesWith(req)
    BY <1>1, <1>2, <1>3, <1>4 DEF GoesWith
  <1>6. QED
    BY <1>1, <1>4, <1>5, ReservedInv

-----------------------------------------------------------------------------
(* evaluate, when the window it rolled has no room either.                 *)
LEMMA EvaluateNoRoomInv ==
  ASSUME IInv, NEW req, NEW now \in Times, EvaluateNoRoom(req, now),
         req.nonce \in STRING, req.amount \in Int
  PROVE  IInv'
  <1>1. /\ WindowIsOver(counters, now)
        /\ counters' = RollWindow(counters, now)
        /\ windowNo' = windowNo + 1
        /\ UNCHANGED <<usedNonces, consumedDecisions, nextDecision, decisions,
                       reserves, spentOn>>
    BY DEF EvaluateNoRoom
  <1>2. /\ now \in Nat \ {0}
        /\ counters \in Counters
        /\ windowNo \in Nat
        /\ reserves \in SUBSET Reserve
    BY EngineAssumption DEF IInv, TypeOK
  <1>3. counters' = [windowStartMs |-> now, allowedCount |-> 0, allowedSum |-> 0]
    BY <1>1 DEF RollWindow
  <1>4. TypeOK'
    <2>1. counters' \in Counters /\ windowNo' \in Nat
      BY <1>1, <1>2, <1>3 DEF Counters
    <2>2. QED
      BY <1>1, <2>1 DEF IInv, TypeOK, DecisionIds
  <1>5. IdsInv' /\ OneReservePerNonce' /\ PaidAsReserved'
    BY <1>1 DEF IInv, IdsInv, OneReservePerNonce, PaidAsReserved, DecisionIds
  <1>6. WindowInv'
    <2>1. counters'.windowStartMs = now /\ WindowMs \in Nat \ {0}
      BY <1>3, PolicyAssumption
    <2>2. ASSUME NEW r \in reserves
          PROVE  r.win <= windowNo' /\ r.atMs < now /\ r.atMs < now + WindowMs
      <3>1. /\ r.win \in Nat /\ r.atMs \in Nat /\ r.win <= windowNo
            /\ r.atMs < counters.windowStartMs + WindowMs
            /\ counters.windowStartMs # 0
            /\ counters.windowStartMs \in Nat
        BY <1>2 DEF IInv, WindowInv, Reserve, Counters
      <3>2. now - counters.windowStartMs >= WindowMs
        BY <1>1, <3>1 DEF WindowIsOver
      <3>3. QED
        BY <1>1, <1>2, <2>1, <3>1, <3>2
    <2>3. QED
      BY <1>1, <1>2, <2>1, <2>2 DEF WindowInv
  <1>7. CountInv'
    <2>1. InWindow(windowNo)' = {}
      <3>1. \A r \in reserves : r.win <= windowNo /\ r.win \in Nat
        BY <1>2 DEF IInv, WindowInv, Reserve
      <3>2. QED
        BY <1>1, <1>2, <3>1 DEF InWindow
    <2>2. /\ counters'.allowedCount = 0 /\ counters'.allowedSum = 0
          /\ IsFiniteSet(reserves')
      BY <1>1, <1>3 DEF IInv, CountInv
    <2>3. NoPhantomRoom'
      BY <2>1, <2>2, FS_EmptySet, TotalOfNone DEF NoPhantomRoom
    <2>4. QED
      BY <1>1, <1>4, <2>2, <2>3, CapKept, PolicyAssumption DEF IInv
  <1>8. QED
    BY <1>4, <1>5, <1>6, <1>7 DEF IInv

(* evaluate, when it throws after it has taken the nonce and the room.     *)
LEMMA EvaluateFaultInv ==
  ASSUME IInv, NEW req, NEW now \in Times, EvaluateFault(req, now),
         req.nonce \in STRING, req.amount \in Int
  PROVE  IInv'
  <1> DEFINE opens  == WindowIsOver(counters, now)
             rolled == RollWindow(counters, now)
  <1>1. /\ Admissible(req)
        /\ HasRoom(rolled, req.amount)
        /\ counters' = Take(rolled, req.amount)
        /\ usedNonces' = usedNonces \cup {req.nonce}
        /\ nextDecision' = nextDecision + 1
        /\ windowNo' = IF opens THEN windowNo + 1 ELSE windowNo
        /\ UNCHANGED <<consumedDecisions, decisions, reserves, spentOn>>
    BY DEF EvaluateFault
  <1>2. /\ req.nonce \in STRING
        /\ req.amount \in Nat \ {0}
        /\ now \in Nat \ {0}
    BY <1>1, EngineAssumption DEF Admissible
  <1>3. /\ counters \in Counters
        /\ usedNonces \in SUBSET STRING
        /\ nextDecision \in Nat \ {0}
        /\ reserves \in SUBSET Reserve
        /\ windowNo \in Nat
    BY DEF IInv, TypeOK
  <1>4. /\ rolled \in Counters
        /\ counters' \in Counters
        /\ counters'.windowStartMs = rolled.windowStartMs
        /\ counters'.windowStartMs # 0
        /\ counters'.allowedCount = rolled.allowedCount + 1
        /\ counters'.allowedSum = rolled.allowedSum + req.amount
    <2>1. rolled \in Counters /\ rolled.windowStartMs # 0
      BY <1>2, <1>3, RollWindowTyped
    <2> HIDE DEF rolled
    <2>2. Take(rolled, req.amount) \in Counters
      BY <1>2, <2>1, TakeTyped
    <2>3. QED
      BY <1>1, <2>1, <2>2 DEF Take
  <1>5. TypeOK'
    <2>1. usedNonces' \in SUBSET STRING
      <3>1. {req.nonce} \in SUBSET STRING
        BY <1>2
      <3>2. QED
        BY <1>1, <1>3, <3>1, Zenon
    <2> HIDE DEF opens
    <2>2. nextDecision' \in Nat \ {0} /\ windowNo' \in Nat
      BY <1>1, <1>3
    <2>3. QED
      BY <1>1, <1>4, <2>1, <2>2 DEF IInv, TypeOK, DecisionIds
  <1>6. IdsInv'
    <2>1. /\ \A r \in reserves : r.id \in Nat
          /\ \A d \in decisions : d.id \in Nat
      BY DEF IInv, TypeOK, Reserve
    <2>2. QED
      BY <1>1, <1>3, <2>1 DEF IInv, IdsInv, DecisionIds
  <1>7. OneReservePerNonce' /\ PaidAsReserved'
    BY <1>1 DEF IInv, OneReservePerNonce, PaidAsReserved, DecisionIds
  <1>8. ASSUME NEW r \in reserves
        PROVE  /\ r.win \in Nat /\ r.atMs \in Nat
               /\ r.win <= windowNo
               /\ r.atMs < counters.windowStartMs + WindowMs
               /\ r.win < windowNo => r.atMs < counters.windowStartMs
               /\ counters.windowStartMs # 0
    BY <1>3 DEF IInv, WindowInv, Reserve
  <1>9. counters.windowStartMs \in Nat /\ WindowMs \in Nat \ {0}
    BY <1>3, PolicyAssumption DEF Counters
  <1>10. WindowInv'
    <2>1. CASE opens
      <3>1. windowNo' = windowNo + 1 /\ counters'.windowStartMs = now
        BY <1>1, <1>4, <2>1 DEF RollWindow
      <3>2. ASSUME NEW r \in reserves
            PROVE  r.win <= windowNo' /\ r.atMs < now /\ r.atMs < now + WindowMs
        BY <1>2, <1>3, <1>8, <1>9, <2>1, <3>1 DEF WindowIsOver
      <3>3. QED
        BY <1>1, <1>4, <3>1, <3>2 DEF WindowInv
    <2>2. CASE ~opens
      <3>1. windowNo' = windowNo /\ counters'.windowStartMs = counters.windowStartMs
        BY <1>1, <1>4, <2>2 DEF RollWindow
      <3>2. QED
        BY <1>1, <1>4, <1>8, <3>1 DEF WindowInv
    <2>3. QED
      BY <2>1, <2>2
  <1>11. CountInv'
    <2>1. /\ Cardinality(InWindow(windowNo)') <= rolled.allowedCount
          /\ Total(InWindow(windowNo)') <= rolled.allowedSum
      <3>1. CASE opens
        <4>1. InWindow(windowNo)' = {}
          BY <1>1, <1>3, <1>8, <3>1 DEF InWindow
        <4>2. rolled.allowedCount = 0 /\ rolled.allowedSum = 0
          BY <3>1 DEF RollWindow
        <4> HIDE DEF rolled
        <4>3. QED
          BY <4>1, <4>2, FS_EmptySet, TotalOfNone
      <3>2. CASE ~opens
        <4>1. InWindow(windowNo)' = InWindow(windowNo) /\ rolled = counters
          BY <1>1, <3>2 DEF InWindow, RollWindow
        <4> HIDE DEF rolled
        <4>2. QED
          BY <4>1 DEF IInv, CountInv, NoPhantomRoom
      <3>3. QED
        BY <3>1, <3>2
    <2>2. IsFiniteSet(reserves') /\ reserves' \in SUBSET Reserve
      BY <1>1, <1>3 DEF IInv, CountInv
    <2> HIDE DEF rolled
    <2>3. NoPhantomRoom'
      <3>1. /\ Cardinality(InWindow(windowNo)') \in Nat /\ Total(InWindow(windowNo)') \in Nat
            /\ rolled.allowedCount \in Nat /\ rolled.allowedSum \in Nat
        BY <1>4, <2>2, WindowTyped DEF Counters, InWindow
      <3>2. QED
        BY <1>2, <1>4, <2>1, <3>1 DEF NoPhantomRoom
    <2>4. /\ counters'.allowedCount <= MaxPayments
          /\ counters'.allowedSum <= MaxCumulative
      BY <1>1, <1>2, <1>4, PolicyAssumption DEF HasRoom, Counters
    <2> HIDE DEF opens
    <2>5. windowNo' \in {windowNo, windowNo + 1}
      BY <1>1
    <2>6. QED
      BY <1>1, <1>5, <2>2, <2>3, <2>4, <2>5, CapKept DEF IInv
  <1>12. QED
    BY <1>5, <1>6, <1>7, <1>10, <1>11 DEF IInv

(* consumeDecision and consumeDecisionToken.                               *)
LEMMA ConsumeInv ==
  ASSUME IInv, NEW d \in decisions, NEW req \in Requests, NEW now \in Times,
         Consume(d, req, now)
  PROVE  IInv'
  <1>1. /\ d.id \notin consumedDecisions
        /\ req = d.req
        /\ consumedDecisions' = consumedDecisions \cup {d.id}
        /\ spentOn' = [spentOn EXCEPT ![d.id] = @ + req.amount]
        /\ UNCHANGED <<counters, usedNonces, nextDecision, decisions, reserves,
                       windowNo>>
    BY DEF Consume
  <1>2. /\ d.id \in Nat \ {0}
        /\ req.amount \in Int
        /\ spentOn \in [DecisionIds -> Int]
        /\ consumedDecisions \in SUBSET (Nat \ {0})
    BY RequestTyped DEF IInv, TypeOK
  <1>3. d.id \in DecisionIds => spentOn[d.id] = 0
    BY <1>1 DEF IInv, IdsInv
  <1>4. \A id \in DecisionIds :
          spentOn'[id] = IF id = d.id THEN req.amount ELSE spentOn[id]
    BY <1>1, <1>2, <1>3
  <1>5. TypeOK'
    <2>1. consumedDecisions' \in SUBSET (Nat \ {0})
      BY <1>1, <1>2
    <2>2. spentOn' \in [DecisionIds -> Int]
      BY <1>1, <1>2, <1>4
    <2>3. QED
      BY <1>1, <2>1, <2>2 DEF IInv, TypeOK, DecisionIds
  <1>6. IdsInv'
    <2>1. \A id \in DecisionIds : spentOn'[id] # 0 => id \in consumedDecisions'
      BY <1>1, <1>4 DEF IInv, IdsInv
    <2>2. QED
      BY <1>1, <2>1 DEF IInv, IdsInv, DecisionIds
  <1>7. PaidAsReserved'
    <2>1. \E r \in reserves : r.id = d.id /\ r.amount = req.amount
      BY <1>1 DEF IInv, IdsInv
    <2>2. ASSUME NEW id \in DecisionIds, spentOn'[id] # 0
          PROVE  \E r \in reserves' : r.id = id /\ r.amount = spentOn'[id]
      <3>1. CASE id = d.id
        BY <1>1, <1>4, <2>1, <3>1
      <3>2. CASE id # d.id
        BY <1>1, <1>4, <2>2, <3>2 DEF IInv, PaidAsReserved
      <3>3. QED
        BY <3>1, <3>2
    <2>3. QED
      BY <2>2 DEF PaidAsReserved, DecisionIds
  <1>8. OneReservePerNonce' /\ WindowInv'
    BY <1>1 DEF IInv, OneReservePerNonce, WindowInv
  <1>9. CountInv'
    BY <1>1 DEF IInv, CountInv, NoPhantomRoom, WindowCap, InWindow
  <1>10. QED
    BY <1>5, <1>6, <1>7, <1>8, <1>9 DEF IInv

-----------------------------------------------------------------------------
(* release.  The window a reserve was taken in is read off its time        *)
(* (WindowInv), so the counters lose exactly what the window loses.        *)
LEMMA ReleaseInv ==
  ASSUME IInv, NEW r \in reserves, Release(r)
  PROVE  IInv'
  <1>1. /\ r.id \notin consumedDecisions
        /\ usedNonces' = usedNonces \ {r.nonce}
        /\ counters' = GiveBack(counters, r.amount, r.atMs)
        /\ decisions' = {d \in decisions : d.id # r.id}
        /\ reserves' = reserves \ {r}
        /\ UNCHANGED <<consumedDecisions, nextDecision, windowNo, spentOn>>
    BY DEF Release
  <1>2. /\ counters \in Counters
        /\ usedNonces \in SUBSET STRING
        /\ reserves \in SUBSET Reserve
        /\ windowNo \in Nat
    BY DEF IInv, TypeOK
  <1>3. /\ r.id \in Nat \ {0} /\ r.amount \in Nat \ {0}
        /\ r.atMs \in Nat \ {0} /\ r.win \in Nat
    BY <1>2 DEF Reserve
  <1>4. counters' \in Counters /\ counters'.windowStartMs = counters.windowStartMs
    <2>1. r.amount \in Nat /\ r.atMs \in Nat
      BY <1>3
    <2>2. QED
      BY <1>1, <1>2, <2>1, GiveBackTyped
  <1>5. TypeOK'
    <2>1. usedNonces' \in SUBSET STRING /\ reserves' \in SUBSET Reserve
      BY <1>1, <1>2
    <2>3. decisions' \subseteq [id : Nat \ {0}, req : Requests, expiryMs : Nat]
      BY <1>1 DEF IInv, TypeOK
    <2>4. QED
      BY <1>1, <1>4, <2>1, <2>3 DEF IInv, TypeOK, DecisionIds
  <1>6. IdsInv'
    <2>1. \A d \in decisions' : \E s \in reserves' : s.id = d.id /\ s.amount = d.req.amount
      BY <1>1 DEF IInv, IdsInv
    <2>2. QED
      BY <1>1, <2>1 DEF IInv, IdsInv, DecisionIds
  <1>7. OneReservePerNonce'
    BY <1>1 DEF IInv, OneReservePerNonce
  <1>8. PaidAsReserved'
    <2>1. ASSUME NEW id \in DecisionIds, spentOn[id] # 0
          PROVE  \E s \in reserves' : s.id = id /\ s.amount = spentOn[id]
      <3>1. PICK s \in reserves : s.id = id /\ s.amount = spentOn[id]
        BY <2>1 DEF IInv, PaidAsReserved
      <3>2. id # r.id
        BY <1>1, <2>1 DEF IInv, IdsInv
      <3>3. QED
        BY <1>1, <3>1, <3>2
    <2>2. QED
      BY <1>1, <2>1 DEF PaidAsReserved, DecisionIds
  <1>9. WindowInv'
    BY <1>1, <1>4 DEF IInv, WindowInv
  <1>10. CountInv'
    <2> DEFINE here == InWindow(windowNo)
    <2>1. IsFiniteSet(reserves) /\ IsFiniteSet(reserves')
      BY <1>1, FS_RemoveElement DEF IInv, CountInv
    <2>2. /\ IsFiniteSet(here) /\ HasAmounts(here)
          /\ Cardinality(here) \in Nat /\ Total(here) \in Nat
      BY <1>2, <2>1, WindowTyped DEF InWindow
    <2>3. here' = here \ {r}
      BY <1>1 DEF InWindow
    <2>4. /\ Cardinality(here) <= counters.allowedCount
          /\ Total(here) <= counters.allowedSum
          /\ counters.allowedCount <= MaxPayments
          /\ counters.allowedSum <= MaxCumulative
      BY DEF IInv, CountInv, NoPhantomRoom
    <2>5. counters.allowedCount \in Nat /\ counters.allowedSum \in Nat
      BY <1>2 DEF Counters
    <2>6. r \in here <=> r.win = windowNo
      BY DEF InWindow
    <2>7. r \in here => /\ Cardinality(here') = Cardinality(here) - 1
                        /\ Total(here') = Total(here) - r.amount
      <3> HIDE DEF here
      <3>1. QED
        BY <2>2, <2>3, FS_RemoveElement, TotalLoses
    <2>8. /\ Cardinality(here') <= counters'.allowedCount
          /\ Total(here') <= counters'.allowedSum
          /\ counters'.allowedCount <= MaxPayments
          /\ counters'.allowedSum <= MaxCumulative
      <3>1. CASE r \in here /\ InCounters(counters, r.atMs)
        <4>1. /\ counters'.allowedCount =
                   IF counters.allowedCount > 0 THEN counters.allowedCount - 1 ELSE 0
              /\ counters'.allowedSum =
                   IF counters.allowedSum >= r.amount
                   THEN counters.allowedSum - r.amount ELSE 0
          BY <1>1, <3>1 DEF GiveBack
        <4> HIDE DEF here
        <4>2. QED
          BY <1>3, <2>2, <2>4, <2>5, <2>7, <3>1, <4>1, PolicyAssumption
      <3>2. CASE r \in here /\ ~InCounters(counters, r.atMs)
        <4>1. counters' = counters
          BY <1>1, <3>2 DEF GiveBack
        <4> HIDE DEF here
        <4>2. QED
          BY <1>3, <2>2, <2>4, <2>5, <2>7, <3>2, <4>1
      <3>3. CASE r \notin here
        <4>1. r.win < windowNo
          BY <1>2, <1>3, <2>6, <3>3 DEF IInv, WindowInv
        <4>2. ~InCounters(counters, r.atMs)
          BY <1>2, <1>3, <4>1 DEF IInv, WindowInv, InCounters, Counters
        <4>3. counters' = counters
          BY <1>1, <4>2 DEF GiveBack
        <4>4. here' = here
          BY <2>3, <3>3
        <4> HIDE DEF here
        <4>5. QED
          BY <2>4, <4>3, <4>4
      <3>4. QED
        BY <3>1, <3>2, <3>3
    <2>9. NoPhantomRoom'
      BY <2>8 DEF NoPhantomRoom
    <2>10. windowNo' \in {windowNo, windowNo + 1} /\ reserves' \ reserves = {}
      BY <1>1
    <2> HIDE DEF here
    <2>11. QED
      BY <1>5, <2>1, <2>8, <2>9, <2>10, CapKept DEF IInv
  <1>11. QED
    BY <1>5, <1>6, <1>7, <1>8, <1>9, <1>10 DEF IInv

-----------------------------------------------------------------------------
LEMMA StepInv == IInv /\ [Next]_vars => IInv'
  <1> SUFFICES ASSUME IInv, [Next]_vars PROVE IInv'
    OBVIOUS
  <1>1. ASSUME NEW req \in Requests, NEW now \in Times, EvaluateAllow(req, now)
        PROVE  IInv'
    BY <1>1, EvaluateAllowInv
  <1>2. ASSUME NEW req \in Requests, NEW now \in Times, EvaluateNoRoom(req, now)
        PROVE  IInv'
    BY <1>2, RequestTyped, EvaluateNoRoomInv
  <1>5. ASSUME NEW req \in Requests, NEW now \in Times, EvaluateFault(req, now)
        PROVE  IInv'
    BY <1>5, RequestTyped, EvaluateFaultInv
  <1>3. ASSUME NEW d \in decisions, NEW req \in Requests, NEW now \in Times,
               Consume(d, req, now)
        PROVE  IInv'
    BY <1>3, ConsumeInv
  <1>4. ASSUME NEW r \in reserves, Release(r)
        PROVE  IInv'
    BY <1>4, ReleaseInv
  <1>6. CASE UNCHANGED vars
    BY <1>6 DEF vars, IInv, TypeOK, IdsInv, OneReservePerNonce, PaidAsReserved,
                WindowInv, CountInv, NoPhantomRoom, WindowCap, InWindow, DecisionIds
  <1>7. QED
    BY <1>1, <1>2, <1>3, <1>4, <1>5, <1>6 DEF Next

(* The engine with its own callers only: its store stays well formed, the  *)
(* limits hold of every window, a release makes no room that was not       *)
(* taken, a nonce stands for one reserve and a decision pays what its      *)
(* reserve holds.                                                          *)
THEOREM EngineInvariant == Spec => []IInv
  BY InitInv, StepInv, PTL DEF Spec

-----------------------------------------------------------------------------
(* The gate.                                                               *)

Refs == {Unguarded} \cup ({"x402", "bypass"} \X STRING)

ReceiptRecord ==
  [payee : STRING, amount : Int, currency : STRING, manifestHash : STRING,
   x402PaymentRef : Refs, atMs : Times, nonce : STRING, under : Nat,
   trust : STRING]

RowRecord == [ref : Refs, amount : Int, currency : STRING, atMs : Times]

GateTyped == receipts \in Seq(ReceiptRecord) /\ ledger \in Seq(RowRecord)

(* A payment's reference is its nonce's, which is how a row finds its      *)
(* receipt.                                                                *)
RefsInv ==
  \A k \in GatedReceipts : receipts[k].x402PaymentRef = Gated(receipts[k].nonce)

GateInv ==
  /\ IInv
  /\ GateTyped
  /\ ReceiptIsDecided
  /\ RefsInv
  /\ RowIsReceipted
  /\ TermsAreAuthorised

-----------------------------------------------------------------------------
(* What a call that reaches the engine brings.                             *)
LEMMA ToolCallTyped ==
  ASSUME NEW in \in GateInput
  PROVE  ToolCall(in) \in GateInput
  <1>1. NoTrust \in STRING
    BY GateAssumption
  <1>2. QED
    BY <1>1 DEF ToolCall, GateInput

LEMMA CallTyped ==
  ASSUME NEW call \in GateCalls
  PROVE  /\ call.in \in GateInput
         /\ call.clock[1] \in Times
         /\ call.clock[2] \in Times
         /\ PassesGate(call.in, call.clock[2])
  <1>1. /\ call.in \in Inputs \cup {ToolCall(i) : i \in Inputs}
        /\ call.clock \in Clocks
        /\ PassesGate(call.in, call.clock[2])
    BY DEF GateCalls
  <1>2. call.in \in GateInput
    BY <1>1, GateAssumption, ToolCallTyped
  <1>3. call.clock \in Times \X Times
    BY <1>1, GateAssumption
  <1>4. QED
    BY <1>1, <1>2, <1>3

LEMMA PresentedTyped ==
  ASSUME NEW in \in GateInput
  PROVE  /\ Presented(in) \in [nonce : STRING, amount : Int, payee : STRING,
                               currency : STRING, tool : STRING, manifestHash : STRING]
         /\ Presented(in).nonce = in.req.nonce
         /\ Presented(in).amount = in.req.amount
         /\ Presented(in).payee = in.req.payee
         /\ Presented(in).currency = in.req.currency
         /\ Presented(in).manifestHash = in.manifest
  <1>1. in.manifest \in STRING
    BY GateAssumption DEF GateInput
  <1>2. in.req \in [nonce : STRING, amount : Int, payee : STRING, currency : STRING,
                    tool : STRING, manifestHash : {NoManifest}]
    BY DEF GateInput
  <1>3. QED
    BY <1>1, <1>2 DEF Presented

LEMMA ReceiptTyped ==
  ASSUME NEW in \in GateInput, NEW now \in Times, NEW ref \in Refs, NEW under \in Nat
  PROVE  Receipt(in, now, ref, under) \in ReceiptRecord
  <1>1. in.manifest \in STRING
    BY GateAssumption DEF GateInput
  <1>2. QED
    BY <1>1 DEF Receipt, ReceiptRecord, GateInput

LEMMA RowTyped ==
  ASSUME NEW in \in GateInput, NEW now \in Times, NEW ref \in Refs
  PROVE  Row(ref, in.req, now) \in RowRecord
  BY DEF Row, RowRecord, GateInput

LEMMA RefsTyped ==
  ASSUME NEW nonce \in STRING
  PROVE  /\ Gated(nonce) \in Refs /\ Gated(nonce)[1] = "x402"
         /\ Bypass(nonce) \in Refs /\ Bypass(nonce)[1] # "x402"
         /\ Unguarded \in Refs /\ Unguarded[1] # "x402"
  BY DEF Gated, Bypass, Unguarded, Refs

LEMMA GatedInjective ==
  ASSUME NEW m, NEW n, Gated(m) = Gated(n)
  PROVE  m = n
  BY DEF Gated

(* TermsAreAuthorised, of one receipt.                                     *)
Authorised(r) ==
  r.manifestHash # NoManifest =>
    /\ Terms[r.manifestHash].signed
    /\ Terms[r.manifestHash].amount = r.amount
    /\ Terms[r.manifestHash].currency = r.currency
    /\ Terms[r.manifestHash].payee \in {AnyPayee, r.payee}
    /\ r.under # 0 => /\ Terms[r.manifestHash].key = r.trust
                      /\ r.atMs <= Terms[r.manifestHash].expiresAtMs

LEMMA GatedTerms ==
  ASSUME NEW in \in GateInput, NEW now \in Times, NEW ref, NEW under,
         PassesGate(in, now)
  PROVE  Authorised(Receipt(in, now, ref, under))
  <1> SUFFICES ASSUME in.manifest # NoManifest
               PROVE  Authorised(Receipt(in, now, ref, under))
    BY DEF Receipt, Authorised
  <1>1. /\ in.trust # NoTrust
        /\ Verifies(in.manifest, in.trust)
        /\ ~Expired(in.manifest, now)
        /\ Describes(in.manifest, in.req)
    BY DEF PassesGate
  <1>2. now \in Nat /\ Terms[in.manifest].expiresAtMs \in Nat
    BY EngineAssumption, GateAssumption DEF GateInput
  <1>3. now <= Terms[in.manifest].expiresAtMs
    BY <1>1, <1>2 DEF Expired
  <1>4. QED
    BY <1>1, <1>3 DEF Receipt, Authorised, Verifies, Describes

LEMMA UngatedTerms ==
  ASSUME NEW in, NEW now, NEW ref, PassesUnguarded(in)
  PROVE  Authorised(Receipt(in, now, ref, 0))
  BY DEF PassesUnguarded, Verifies, Describes, Receipt, Authorised

(* What a sequence is after an append.                                     *)
LEMMA Appended ==
  ASSUME NEW S, NEW s \in Seq(S), NEW e \in S
  PROVE  /\ Append(s, e) \in Seq(S)
         /\ DOMAIN Append(s, e) = DOMAIN s \cup {Len(s) + 1}
         /\ \A k \in DOMAIN s : Append(s, e)[k] = s[k]
         /\ Append(s, e)[Len(s) + 1] = e
         /\ Len(s) + 1 \notin DOMAIN s
  BY AppendProperties

-----------------------------------------------------------------------------
(* The engine's part of a settlement.                                      *)
LEMMA DecidesInv ==
  ASSUME IInv, NEW in \in GateInput, NEW at \in Times, Decides(in, at),
         GoesWith(Presented(in))
  PROVE  IInv'
  <1>1. /\ Reserved(Presented(in), at)
        /\ Presented(in).nonce \in STRING /\ Presented(in).amount \in Int
    BY PresentedTyped DEF Decides, GateInput
  <1>2. QED
    BY <1>1, ReservedInv

LEMMA UnpaidGoesWith ==
  ASSUME IInv, NEW req, UNCHANGED <<decisions, spentOn>>,
         \/ consumedDecisions' = consumedDecisions
         \/ consumedDecisions' = consumedDecisions \cup {nextDecision}
  PROVE  GoesWith(req)
  BY DEF GoesWith, IInv, TypeOK

(* A new decision has nothing paid under it yet.                           *)
LEMMA PaidGoesWith ==
  ASSUME IInv, NEW req, req.amount \in Int, nextDecision <= MaxDecisions,
         UNCHANGED decisions,
         consumedDecisions' = consumedDecisions \cup {nextDecision},
         spentOn' = [spentOn EXCEPT ![nextDecision] = @ + req.amount]
  PROVE  GoesWith(req)
  <1>1. nextDecision \in DecisionIds /\ spentOn \in [DecisionIds -> Int]
    BY EngineAssumption DEF IInv, TypeOK, DecisionIds
  <1>2. \A r \in reserves : r.id # nextDecision
    BY DEF IInv, TypeOK, IdsInv, Reserve
  <1>3. spentOn[nextDecision] = 0
    BY <1>1, <1>2 DEF IInv, PaidAsReserved
  <1>4. /\ spentOn' \in [DecisionIds -> Int]
        /\ \A id \in DecisionIds :
             spentOn'[id] = IF id = nextDecision THEN req.amount ELSE spentOn[id]
    BY <1>1, <1>3
  <1>5. QED
    BY <1>4 DEF GoesWith

-----------------------------------------------------------------------------
(* A consumed decision's reserve stays: the engine's own callers release   *)
(* only what they never consumed.                                          *)
LEMMA EngineKeeps ==
  ASSUME [Next]_vars
  PROVE  /\ consumedDecisions \subseteq consumedDecisions'
         /\ \A r \in reserves : r.id \in consumedDecisions => r \in reserves'
  <1>1. ASSUME NEW req \in Requests, NEW now \in Times, EvaluateAllow(req, now)
        PROVE  consumedDecisions' = consumedDecisions /\ reserves \subseteq reserves'
    BY <1>1 DEF EvaluateAllow, Reserved
  <1>2. ASSUME NEW req \in Requests, NEW now \in Times,
               EvaluateNoRoom(req, now) \/ EvaluateFault(req, now)
        PROVE  consumedDecisions' = consumedDecisions /\ reserves' = reserves
    BY <1>2 DEF EvaluateNoRoom, EvaluateFault
  <1>3. ASSUME NEW d \in decisions, NEW req \in Requests, NEW now \in Times,
               Consume(d, req, now)
        PROVE  consumedDecisions \subseteq consumedDecisions' /\ reserves' = reserves
    BY <1>3 DEF Consume
  <1>4. ASSUME NEW r \in reserves, Release(r)
        PROVE  /\ consumedDecisions' = consumedDecisions
               /\ reserves' = reserves \ {r} /\ r.id \notin consumedDecisions
    BY <1>4 DEF Release
  <1>5. CASE UNCHANGED vars
    BY <1>5 DEF vars
  <1>6. QED
    BY <1>1, <1>2, <1>3, <1>4, <1>5 DEF Next

(* A step of the gate that signs no receipt and writes no row.             *)
LEMMA Keeps ==
  ASSUME GateInv, UNCHANGED <<receipts, ledger>>,
         consumedDecisions \subseteq consumedDecisions',
         \A r \in reserves : r.id \in consumedDecisions => r \in reserves'
  PROVE  /\ GateTyped' /\ ReceiptIsDecided' /\ RefsInv' /\ RowIsReceipted'
         /\ TermsAreAuthorised'
  <1>1. GatedReceipts' = GatedReceipts /\ GatedRows' = GatedRows
    BY DEF GatedReceipts, GatedRows
  <1>2. GateTyped' /\ RefsInv' /\ RowIsReceipted'
    BY <1>1 DEF GateInv, GateTyped, RefsInv, RowIsReceipted
  <1>3. ReceiptIsDecided'
    BY <1>1 DEF GateInv, ReceiptIsDecided
  <1>4. TermsAreAuthorised'
    BY <1>1 DEF GateInv, TermsAreAuthorised
  <1>5. QED
    BY <1>2, <1>3, <1>4

LEMMA EngineStepInv ==
  ASSUME GateInv, Next, UNCHANGED gateVars
  PROVE  GateInv'
  <1>1. IInv'
    BY StepInv DEF GateInv
  <1>2. QED
    BY <1>1, EngineKeeps, Keeps DEF GateInv, gateVars

(* The token had expired, or the receipt could not be signed.              *)
LEMMA GateFailsInv ==
  ASSUME GateInv, NEW in \in GateInput, NEW at \in Times, NEW now \in Times,
         GateExpires(in, at, now) \/ GateThrows(in, at, now)
  PROVE  GateInv'
  <1>1. /\ Decides(in, at)
        /\ UNCHANGED <<decisions, spentOn, receipts, ledger>>
        /\ \/ consumedDecisions' = consumedDecisions
           \/ consumedDecisions' = consumedDecisions \cup {nextDecision}
        /\ reserves \subseteq reserves'
    BY DEF GateExpires, GateThrows, Decides, Reserved
  <1>2. IInv'
    BY <1>1, UnpaidGoesWith, DecidesInv DEF GateInv
  <1>3. QED
    BY <1>1, <1>2, Keeps DEF GateInv

LEMMA GateRefusesInv ==
  ASSUME GateInv, NEW in \in GateInput, NEW at \in Times, GateRefuses(in, at)
  PROVE  GateInv'
  <1>1. Presented(in).nonce \in STRING /\ Presented(in).amount \in Int
    BY PresentedTyped DEF GateInput
  <1>2. IInv'
    BY <1>1, EvaluateNoRoomInv, EvaluateFaultInv DEF GateRefuses, GateInv
  <1>3. /\ UNCHANGED <<receipts, ledger, consumedDecisions, reserves>>
    BY DEF GateRefuses, EvaluateNoRoom, EvaluateFault, gateVars
  <1>4. QED
    BY <1>2, <1>3, Keeps DEF GateInv

-----------------------------------------------------------------------------
LEMMA ReservedGives ==
  ASSUME NEW req, NEW now, Reserved(req, now)
  PROVE  /\ nextDecision <= MaxDecisions
         /\ req.nonce \notin usedNonces
         /\ reserves \subseteq reserves'
         /\ \E r \in reserves' :
              r.id = nextDecision /\ r.nonce = req.nonce /\ r.amount = req.amount
  <1> DEFINE win == IF WindowIsOver(counters, now) THEN windowNo + 1 ELSE windowNo
             new == [id |-> nextDecision, nonce |-> req.nonce,
                     amount |-> req.amount, atMs |-> now, win |-> win]
  <1>1. new \in reserves' /\ reserves \subseteq reserves'
    BY DEF Reserved
  <1>2. new.id = nextDecision /\ new.nonce = req.nonce /\ new.amount = req.amount
    OBVIOUS
  <1> HIDE DEF new
  <1>3. QED
    BY <1>1, <1>2 DEF Reserved, Admissible

(* A settlement: the new receipt's nonce was free, so no earlier receipt   *)
(* of the gate, whose reserve holds its nonce, has it.                     *)
LEMMA GateSettlesInv ==
  ASSUME GateInv, NEW in \in GateInput, NEW at \in Times, NEW now \in Times,
         PassesGate(in, now), GateSettles(in, at, now)
  PROVE  GateInv'
  <1> DEFINE nonce == in.req.nonce
             ref   == Gated(nonce)
             new   == Receipt(in, now, ref, nextDecision)
             row   == Row(ref, in.req, now)
             last  == Len(receipts) + 1
             end   == Len(ledger) + 1
  <1>1. /\ Decides(in, at)
        /\ Reserved(Presented(in), at)
        /\ UNCHANGED decisions
        /\ consumedDecisions' = consumedDecisions \cup {nextDecision}
        /\ spentOn' = [spentOn EXCEPT ![nextDecision] = @ + in.req.amount]
        /\ receipts' = Append(receipts, new)
        /\ ledger' = IF in.ledgered THEN Append(ledger, row) ELSE ledger
    BY DEF GateSettles, Decides
  <1>2. /\ nonce \in STRING /\ in.req.amount \in Int
        /\ Presented(in).nonce = nonce /\ Presented(in).amount = in.req.amount
        /\ nextDecision \in Nat \ {0}
    BY PresentedTyped DEF GateInput, GateInv, IInv, TypeOK
  <1>3. /\ nextDecision <= MaxDecisions
        /\ nonce \notin usedNonces
        /\ \E r \in reserves' : /\ r.id = nextDecision /\ r.nonce = nonce
                               /\ r.amount = in.req.amount
        /\ reserves \subseteq reserves'
    BY <1>1, <1>2, ReservedGives
  <1>4. IInv'
    <2>1. GoesWith(Presented(in))
      BY <1>1, <1>2, <1>3, PaidGoesWith DEF GateInv
    <2>2. QED
      BY <1>1, <2>1, DecidesInv DEF GateInv
  <1>5. /\ new \in ReceiptRecord /\ row \in RowRecord
        /\ ref \in Refs /\ ref[1] = "x402"
    <2>1. ref \in Refs /\ ref[1] = "x402"
      BY <1>2, RefsTyped
    <2> HIDE DEF ref
    <2>2. QED
      BY <1>2, <2>1, PresentedTyped, ReceiptTyped, RowTyped
  <1>6. /\ new.under = nextDecision /\ new.nonce = nonce
        /\ new.amount = in.req.amount /\ new.currency = in.req.currency
        /\ new.x402PaymentRef = ref /\ new.atMs = now
        /\ row.ref = ref /\ row.amount = in.req.amount
        /\ row.currency = in.req.currency /\ row.atMs = now
    BY DEF Receipt, Row
  <1> HIDE DEF new, row, ref, nonce
  <1>7. receipts \in Seq(ReceiptRecord) /\ ledger \in Seq(RowRecord)
    BY DEF GateInv, GateTyped
  <1>8. /\ receipts' \in Seq(ReceiptRecord)
        /\ DOMAIN receipts' = DOMAIN receipts \cup {last}
        /\ \A k \in DOMAIN receipts : receipts'[k] = receipts[k]
        /\ receipts'[last] = new
        /\ last \notin DOMAIN receipts
    BY <1>1, <1>5, <1>7, Appended
  <1>9. GateTyped'
    BY <1>1, <1>5, <1>7, <1>8, Appended DEF GateTyped
  <1> HIDE DEF last, end
  <1>10. GatedReceipts' = GatedReceipts \cup {last} /\ last \notin GatedReceipts
    BY <1>2, <1>6, <1>8 DEF GatedReceipts
  <1>11. \A k \in GatedReceipts : receipts'[k] = receipts[k]
    BY <1>8 DEF GatedReceipts
  <1>12. \A k \in GatedReceipts : receipts[k].nonce # nonce
    BY <1>3 DEF GateInv, IInv, ReceiptIsDecided, OneReservePerNonce
  <1>13. ReceiptIsDecided'
    <2>1. ASSUME NEW k \in GatedReceipts'
          PROVE  /\ receipts'[k].under \in consumedDecisions'
                 /\ \E r \in reserves' : /\ r.id = receipts'[k].under
                                        /\ r.nonce = receipts'[k].nonce
                                        /\ r.amount = receipts'[k].amount
      <3>1. CASE k = last
        BY <1>1, <1>3, <1>6, <1>8, <3>1
      <3>2. CASE k # last
        <4>1. k \in GatedReceipts /\ receipts'[k] = receipts[k]
          BY <1>10, <1>11, <3>2
        <4>2. /\ receipts[k].under \in consumedDecisions
              /\ \E r \in reserves : /\ r.id = receipts[k].under
                                    /\ r.nonce = receipts[k].nonce
                                    /\ r.amount = receipts[k].amount
          BY <4>1 DEF GateInv, ReceiptIsDecided
        <4>3. QED
          BY <1>1, <1>3, <4>1, <4>2
      <3>3. QED
        BY <3>1, <3>2
    <2>2. ASSUME NEW k \in GatedReceipts', NEW j \in GatedReceipts',
                 receipts'[j].nonce = receipts'[k].nonce
          PROVE  j = k
      BY <1>6, <1>8, <1>10, <1>11, <1>12, <2>2 DEF GateInv, ReceiptIsDecided
    <2>3. QED
      BY <2>1, <2>2 DEF ReceiptIsDecided
  <1>14. RefsInv'
    BY <1>6, <1>8, <1>10, <1>11 DEF GateInv, RefsInv, ref
  <1>15. RowIsReceipted'
    <2>1. ASSUME NEW k \in GatedRows
          PROVE  \E j \in GatedReceipts' :
                   /\ receipts'[j].x402PaymentRef = ledger[k].ref
                   /\ receipts'[j].amount = ledger[k].amount
                   /\ receipts'[j].currency = ledger[k].currency
                   /\ receipts'[j].atMs = ledger[k].atMs
      BY <1>10, <1>11 DEF GateInv, RowIsReceipted
    <2>2. ASSUME NEW k \in GatedRows PROVE ledger[k].ref # ref
      <3>1. PICK j \in GatedReceipts : receipts[j].x402PaymentRef = ledger[k].ref
        BY DEF GateInv, RowIsReceipted
      <3>2. ledger[k].ref = Gated(receipts[j].nonce) /\ receipts[j].nonce # nonce
        BY <1>12, <3>1 DEF GateInv, RefsInv
      <3>3. QED
        BY <3>2, GatedInjective DEF ref
    <2>3. CASE ~in.ledgered
      <3>1. ledger' = ledger /\ GatedRows' = GatedRows
        BY <1>1, <2>3 DEF GatedRows
      <3>2. QED
        BY <2>1, <3>1 DEF GateInv, RowIsReceipted
    <2>4. CASE in.ledgered
      <3>1. /\ DOMAIN ledger' = DOMAIN ledger \cup {end}
            /\ \A k \in DOMAIN ledger : ledger'[k] = ledger[k]
            /\ ledger'[end] = row
            /\ end \notin DOMAIN ledger
        BY <1>1, <1>5, <1>7, <2>4, Appended DEF end
      <3>2. /\ GatedRows' = GatedRows \cup {end} /\ end \notin GatedRows
            /\ \A k \in GatedRows : ledger'[k] = ledger[k]
        BY <1>5, <1>6, <3>1 DEF GatedRows
      <3>3. ASSUME NEW k \in GatedRows', NEW j \in GatedRows',
                   ledger'[j].ref = ledger'[k].ref
            PROVE  j = k
        BY <1>6, <2>2, <3>1, <3>2, <3>3 DEF GateInv, RowIsReceipted
      <3>4. ASSUME NEW k \in GatedRows'
            PROVE  \E j \in GatedReceipts' :
                     /\ receipts'[j].x402PaymentRef = ledger'[k].ref
                     /\ receipts'[j].amount = ledger'[k].amount
                     /\ receipts'[j].currency = ledger'[k].currency
                     /\ receipts'[j].atMs = ledger'[k].atMs
        <4>1. CASE k = end
          BY <1>6, <1>8, <1>10, <3>1, <4>1
        <4>2. CASE k # end
          BY <2>1, <3>2, <4>2
        <4>3. QED
          BY <4>1, <4>2
      <3>5. QED
        BY <3>3, <3>4 DEF RowIsReceipted
    <2>5. QED
      BY <2>3, <2>4
  <1>16. TermsAreAuthorised'
    <2>1. Authorised(new)
      BY GatedTerms DEF new
    <2>2. \A k \in DOMAIN receipts' : Authorised(receipts'[k])
      BY <1>8, <2>1 DEF GateInv, TermsAreAuthorised, Authorised
    <2>3. QED
      BY <2>2 DEF TermsAreAuthorised, Authorised
  <1>17. QED
    BY <1>4, <1>9, <1>13, <1>14, <1>15, <1>16 DEF GateInv

-----------------------------------------------------------------------------
(* The calls past the gate sign receipts under no decision and write rows  *)
(* of their own.                                                           *)
LEMMA UngatedInv ==
  ASSUME GateInv, NEW in \in GateInput, NEW now \in Times,
         UnguardedSettle(in, now) \/ BypassRailOnly(in, now)
  PROVE  GateInv'
  <1> DEFINE receipt == Receipt(in, now, Unguarded, 0)
             last    == Len(receipts) + 1
             end     == Len(ledger) + 1
  <1>1. PICK row : /\ \/ row = Row(Unguarded, in.req, now)
                      \/ row = Row(Bypass(in.req.nonce), in.req, now)
                   /\ ledger' \in {ledger, Append(ledger, row)}
    BY DEF UnguardedSettle, BypassRailOnly
  <1>2. receipts' \in {receipts, Append(receipts, receipt)} /\ UNCHANGED vars
    BY DEF UnguardedSettle, BypassRailOnly
  <1>3. in.req.nonce \in STRING
    BY DEF GateInput
  <1>4. row \in RowRecord /\ row.ref[1] # "x402"
    <2>1. /\ Unguarded \in Refs /\ Unguarded[1] # "x402"
          /\ Bypass(in.req.nonce) \in Refs /\ Bypass(in.req.nonce)[1] # "x402"
      BY <1>3, RefsTyped
    <2>2. row.ref \in {Unguarded, Bypass(in.req.nonce)}
      BY <1>1 DEF Row
    <2>3. QED
      BY <1>1, <2>1, <2>2, RowTyped
  <1>5. receipt \in ReceiptRecord /\ receipt.under = 0
    <2>1. Unguarded \in Refs
      BY DEF Refs
    <2>2. QED
      BY <2>1, ReceiptTyped DEF Receipt
  <1> HIDE DEF receipt
  <1>6. receipts \in Seq(ReceiptRecord) /\ ledger \in Seq(RowRecord)
    BY DEF GateInv, GateTyped
  <1>7. GateTyped'
    <2>1. receipts' \in Seq(ReceiptRecord)
      BY <1>2, <1>5, <1>6, Appended
    <2>2. ledger' \in Seq(RowRecord)
      BY <1>1, <1>4, <1>6, Appended
    <2>3. QED
      BY <2>1, <2>2 DEF GateTyped
  <1>8. /\ GatedReceipts' = GatedReceipts
        /\ \A k \in GatedReceipts : receipts'[k] = receipts[k]
    <2>1. CASE receipts' = receipts
      BY <2>1 DEF GatedReceipts
    <2>2. CASE receipts' = Append(receipts, receipt)
      <3>1. /\ DOMAIN receipts' = DOMAIN receipts \cup {last}
            /\ \A k \in DOMAIN receipts : receipts'[k] = receipts[k]
            /\ receipts'[last] = receipt
        BY <1>5, <1>6, <2>2, Appended
      <3>2. QED
        BY <1>5, <3>1 DEF GatedReceipts
    <2>3. QED
      BY <1>2, <2>1, <2>2
  <1>9. /\ GatedRows' = GatedRows
        /\ \A k \in GatedRows : ledger'[k] = ledger[k]
    <2>1. CASE ledger' = ledger
      BY <2>1 DEF GatedRows
    <2>2. CASE ledger' = Append(ledger, row)
      <3>1. /\ DOMAIN ledger' = DOMAIN ledger \cup {end}
            /\ \A k \in DOMAIN ledger : ledger'[k] = ledger[k]
            /\ ledger'[end] = row
        BY <1>4, <1>6, <2>2, Appended
      <3>2. QED
        BY <1>4, <3>1 DEF GatedRows
    <2>3. QED
      BY <1>1, <2>1, <2>2
  <1>10. IInv'
    BY <1>2, StepInv DEF GateInv
  <1>11. UNCHANGED <<consumedDecisions, reserves>>
    BY <1>2 DEF vars
  <1>12. ReceiptIsDecided'
    BY <1>8, <1>11 DEF GateInv, ReceiptIsDecided
  <1>13. RefsInv'
    BY <1>8 DEF GateInv, RefsInv
  <1>14. RowIsReceipted'
    BY <1>8, <1>9 DEF GateInv, RowIsReceipted
  <1>15. TermsAreAuthorised'
    <2>1. CASE receipts' = receipts
      BY <2>1 DEF GateInv, TermsAreAuthorised
    <2>2. CASE receipts' # receipts
      <3>1. receipts' = Append(receipts, receipt) /\ PassesUnguarded(in)
        BY <1>2, <2>2 DEF UnguardedSettle, BypassRailOnly
      <3>2. Authorised(receipt)
        BY <3>1, UngatedTerms DEF receipt
      <3>3. \A k \in DOMAIN receipts' : Authorised(receipts'[k])
        BY <1>5, <1>6, <3>1, <3>2, Appended DEF GateInv, TermsAreAuthorised, Authorised
      <3>4. QED
        BY <3>3 DEF TermsAreAuthorised, Authorised
    <2>3. QED
      BY <2>1, <2>2
  <1>16. QED
    BY <1>7, <1>10, <1>12, <1>13, <1>14, <1>15 DEF GateInv

-----------------------------------------------------------------------------
LEMMA GateInitInv == GateInit => GateInv
  <1> SUFFICES ASSUME GateInit PROVE GateInv
    OBVIOUS
  <1>1. IInv
    BY InitInv DEF GateInit
  <1>2. receipts = <<>> /\ ledger = <<>>
    BY DEF GateInit
  <1>3. GatedReceipts = {} /\ GatedRows = {} /\ GateTyped
    BY <1>2 DEF GatedReceipts, GatedRows, GateTyped
  <1>4. QED
    BY <1>1, <1>2, <1>3
    DEF GateInv, ReceiptIsDecided, RefsInv, RowIsReceipted, TermsAreAuthorised

LEMMA GateStepInv == GateInv /\ [GateNext]_allVars => GateInv'
  <1> SUFFICES ASSUME GateInv, [GateNext]_allVars PROVE GateInv'
    OBVIOUS
  <1>1. ASSUME Next, UNCHANGED gateVars PROVE GateInv'
    BY <1>1, EngineStepInv
  <1>2. ASSUME NEW call \in GateCalls,
               \/ GateSettles(call.in, call.clock[1], call.clock[2])
               \/ GateExpires(call.in, call.clock[1], call.clock[2])
               \/ GateThrows(call.in, call.clock[1], call.clock[2])
               \/ GateRefuses(call.in, call.clock[1])
        PROVE  GateInv'
    BY <1>2, CallTyped, GateSettlesInv, GateFailsInv, GateRefusesInv
  <1>3. ASSUME NEW call \in UngatedCalls,
               UnguardedSettle(call.in, call.now) \/ BypassRailOnly(call.in, call.now)
        PROVE  GateInv'
    <2>1. call.in \in GateInput /\ call.now \in Times
      BY GateAssumption
    <2>2. QED
      BY <1>3, <2>1, UngatedInv
  <1>4. CASE UNCHANGED allVars
    <2>1. UNCHANGED vars /\ UNCHANGED <<receipts, ledger, consumedDecisions, reserves>>
      BY <1>4 DEF allVars, gateVars, vars
    <2>2. IInv'
      BY <2>1, StepInv DEF GateInv
    <2>3. QED
      BY <2>1, <2>2, Keeps DEF GateInv
  <1>5. QED
    BY <1>1, <1>2, <1>3, <1>4 DEF GateNext

THEOREM GateInvariant == GateSpec => []GateInv
  BY GateInitInv, GateStepInv, PTL DEF GateSpec

(* The store stays well formed, with settlements through the gate beside   *)
(* the engine's own callers: no counter of the window goes below zero.     *)
THEOREM GateTypeOK == GateSpec => []TypeOK
  <1>1. GateInv => TypeOK
    BY DEF GateInv, IInv
  <1>2. QED
    BY <1>1, GateInvariant, PTL

(* A release never makes room in a window that the window did not have.    *)
THEOREM GateNoPhantomRoom == GateSpec => []NoPhantomRoom
  <1>1. GateInv => NoPhantomRoom
    BY DEF GateInv, IInv, CountInv
  <1>2. QED
    BY <1>1, GateInvariant, PTL

(* The velocity and the cumulative limit hold of every window's payments,  *)
(* whoever made them: of the current one, because the counters count no    *)
(* less than it holds, and of an earlier one, because nothing joins it.    *)
THEOREM GateWindowCap == GateSpec => []WindowCap
  <1>1. GateInv => WindowCap
    BY DEF GateInv, IInv, CountInv
  <1>2. QED
    BY <1>1, GateInvariant, PTL

(* One nonce stands for one payment, through any number of releases.       *)
THEOREM GateOneReservePerNonce == GateSpec => []OneReservePerNonce
  <1>1. GateInv => OneReservePerNonce
    BY DEF GateInv, IInv
  <1>2. QED
    BY <1>1, GateInvariant, PTL

(* What was paid under a decision is what its reserve still holds.         *)
THEOREM GatePaidAsReserved == GateSpec => []PaidAsReserved
  <1>1. GateInv => PaidAsReserved
    BY DEF GateInv, IInv
  <1>2. QED
    BY <1>1, GateInvariant, PTL

(* Every receipt of the gate stands for a decision consumed and a reserve  *)
(* still held, and no nonce has two, whatever the engine's other callers   *)
(* evaluate, consume and release meanwhile.                                *)
THEOREM GateReceiptIsDecided == GateSpec => []ReceiptIsDecided
  <1>1. GateInv => ReceiptIsDecided
    BY DEF GateInv
  <1>2. QED
    BY <1>1, GateInvariant, PTL

(* Every row of a gated payment is one receipt's, and no receipt has two.  *)
THEOREM GateRowIsReceipted == GateSpec => []RowIsReceipted
  <1>1. GateInv => RowIsReceipted
    BY DEF GateInv
  <1>2. QED
    BY <1>1, GateInvariant, PTL

(* A receipt names terms only if signed terms allow what it says, and from *)
(* the gate terms in force of the party the caller named.                  *)
THEOREM GateTermsAreAuthorised == GateSpec => []TermsAreAuthorised
  <1>1. GateInv => TermsAreAuthorised
    BY DEF GateInv
  <1>2. QED
    BY <1>1, GateInvariant, PTL
=============================================================================
