------------------------ MODULE TradeExecutionProofs ------------------------
(***************************************************************************)
(* Order execution is safe for any intents, lease, cooldown and bounds:    *)
(* the lease of an order that may still be filled is in memory, in the     *)
(* file and in every snapshot on its way to the file, so neither a restart *)
(* nor a concurrent save lets a second order of the intent through.        *)
(***************************************************************************)
EXTENDS TradeExecution, FiniteSetTheorems, TLAPS

Open(o) == Gail(o) /\ ~o.known /\ o.status # "rejected"
Leases(ledger, k, until) == ledger.lease[k] >= until
Everywhere(k, until) ==
  /\ Leases(mem, k, until) /\ Leases(disk, k, until)
  /\ writer.who # "none" => Leases(writer.snap, k, until)

(* Who holds the persist lock is at a step that writes. *)
LockHeld ==
  /\ writer.who = "owner" => op.pc \in {"lease", "ending"}
  /\ writer.who = "api" => api # "idle"

(* The owner's own lease: in memory from the claim on, everywhere once saved. *)
OwnLease ==
  /\ op.pc \in {"lease", "activate", "post", "posted"} => op.claimed <= clock
  /\ op.pc = "lease" => /\ Leases(mem, op.key, op.claimed + Lease)
                        /\ writer.who = "owner" => Leases(writer.snap, op.key, op.claimed + Lease)
  /\ op.pc \in {"activate", "post", "posted"} => Everywhere(op.key, op.claimed + Lease)

(* The lease of every open order, until it runs out. *)
OpenLeased ==
  \A i \in DOMAIN orders :
    Open(orders[i]) /\ clock < orders[i].claimed + Lease
      => Everywhere(orders[i].key, orders[i].claimed + Lease)

(* Whoever claims an intent finds no open order of it but its own. *)
ClaimedAlone ==
  op.pc \in {"lease", "activate", "post", "posted"} =>
    \A i \in DOMAIN orders :
      Open(orders[i]) /\ orders[i].key = op.key /\ ~(op.pc = "posted" /\ i = op.order)
        => op.claimed >= orders[i].claimed + Lease

(* A pause that was promised is in every copy; one under way in its own. *)
PauseSpread ==
  /\ promised.pause => /\ mem.paused /\ disk.paused
                       /\ writer.who # "none" => writer.snap.paused
  /\ api = "pause" => mem.paused /\ (writer.who = "api" => writer.snap.paused)

IInv == TypeOK /\ LockHeld /\ OwnLease /\ OpenLeased /\ ClaimedAlone /\ NoBlindRepeat /\ PauseSpread

(* The values that the actions build have their types. *)
LEMMA BuiltTypes ==
  /\ Empty \in Ledger /\ NoWriter \in [who : {"none", "owner", "api"}, snap : Ledger]
  /\ Resting \in Owner /\ Resting.pc = "idle"
  /\ Ending \in Owner /\ Ending.pc = "ending"
  <1>1. Empty \in Ledger
    BY DEF Empty, Ledger
  <1>2. Resting \in Owner /\ Resting.pc = "idle"
    BY DEF Resting, Owner, PC, Override
  <1> QED BY <1>1, <1>2 DEF NoWriter, Ending, Owner, PC

LEMMA LedgerTypes ==
  ASSUME NEW L \in Ledger
  PROVE  /\ L.lease \in [Key -> Nat] /\ L.trades \subseteq Trade /\ L.paused \in BOOLEAN
         /\ \A f \in [Key -> Nat] : [L EXCEPT !.lease = f] \in Ledger
         /\ \A T \in SUBSET Trade : [L EXCEPT !.trades = T] \in Ledger
         /\ \A b \in BOOLEAN : [L EXCEPT !.paused = b] \in Ledger
         /\ \A k \in Key : [L EXCEPT !.lease[k] = 0] \in Ledger
  BY DEF Ledger

LEMMA InitIInv == Init => IInv
  <1> SUFFICES ASSUME Init PROVE IInv
    OBVIOUS
  <1> USE TradeConstants
  <1>1. Empty \in Ledger
    BY DEF Empty, Ledger
  <1>2. \A k \in Key : ForeignTrade(k) \in Order
    BY DEF ForeignTrade, Order
  <1>3. orders \in Seq(Order)
    <2>1. CASE orders = <<>>
      BY <2>1
    <2>2. CASE orders # <<>>
      <3>1. PICK k \in Key : orders = <<ForeignTrade(k)>>
        BY <2>2 DEF Init
      <3> QED BY <3>1, <1>2
    <2> QED BY <2>1, <2>2
  <1>4. TypeOK
    BY <1>1, <1>3, BuiltTypes DEF Init, TypeOK, Override
  <1>5. \A i \in DOMAIN orders : ~Gail(orders[i])
    BY DEF Init, ForeignTrade, Gail
  <1> QED
    BY <1>4, <1>5 DEF Init, IInv, LockHeld, OwnLease, OpenLeased, ClaimedAlone, NoBlindRepeat,
                      PauseSpread, Resting, NoWriter, Open

LEMMA OwnerTypes ==
  ASSUME NEW o \in Owner
  PROVE  /\ o.pc \in PC /\ o.key \in Override /\ o.manual \in BOOLEAN /\ o.claimed \in Nat
         /\ o.mode \in Nat /\ o.retries \in Nat /\ o.order \in Nat
         /\ \A pc \in PC : [o EXCEPT !.pc = pc] \in Owner /\ [o EXCEPT !.pc = pc].pc = pc
         /\ \A pc \in PC : [o EXCEPT !.pc = pc].key = o.key
  BY DEF Owner

LEMMA OrderTypes ==
  ASSUME NEW o \in Order
  PROVE  /\ o.key \in Key /\ o.claimed \in Nat /\ o.at \in Nat /\ o.known \in BOOLEAN
         /\ [o EXCEPT !.known = TRUE] \in Order
         /\ \A s \in {"accepted", "rejected"}, n \in Nat : [o EXCEPT !.status = s, !.at = n] \in Order
  BY DEF Order

LEMMA ReplaceOrder ==
  ASSUME NEW S \in Seq(Order), NEW i \in DOMAIN S, NEW o \in Order
  PROVE  [S EXCEPT ![i] = o] \in Seq(Order) /\ DOMAIN [S EXCEPT ![i] = o] = DOMAIN S
  OBVIOUS

(* The types survive every step. *)
LEMMA TypeStep == TypeOK /\ [Next]_vars => TypeOK'
  <1> SUFFICES ASSUME TypeOK, [Next]_vars PROVE TypeOK'
    OBVIOUS
  <1> USE TradeConstants, BuiltTypes
  <1>0. op \in Owner /\ mem \in Ledger /\ disk \in Ledger /\ writer.snap \in Ledger
    BY DEF TypeOK
  <1>a. \A pc \in PC : /\ At(pc) \in Owner /\ At(pc).pc = pc
                       /\ \A k \in Key : /\ [At(pc) EXCEPT !.key = k] \in Owner
                                         /\ [At(pc) EXCEPT !.key = k].pc = pc
                                         /\ [At(pc) EXCEPT !.key = k].key = k
    BY <1>0 DEF At, Owner, Override
  <1>1. CASE Wake
    <2>1. CASE BeginEvaluation
      BY <2>1, <1>a DEF BeginEvaluation, TypeOK, PC, store, outside
    <2>2. CASE Import
      <3>1. mem' \in Ledger
        <4> DEFINE new == {i \in DOMAIN orders : orders[i].status = "accepted"
                                                  /\ i \notin {t.id : t \in mem.trades}}
                   rows == {[id |-> i, key |-> orders[i].key, ts |-> orders[i].at] : i \in new}
        <4>1. \A i \in DOMAIN orders : i \in Nat /\ orders[i] \in Order
          BY DEF TypeOK
        <4>a. \A i \in new : [id |-> i, key |-> orders[i].key, ts |-> orders[i].at] \in Trade
          BY <4>1, OrderTypes DEF Trade
        <4>2. rows \subseteq Trade
          BY <4>a
        <4>3. mem.trades \cup rows \subseteq Trade
          BY <4>2, <1>0, LedgerTypes
        <4>4. mem' = [mem EXCEPT !.trades = mem.trades \cup rows]
          BY <2>2 DEF Import
        <4> QED BY <4>3, <4>4, <1>0, LedgerTypes
      <3> QED BY <2>2, <3>1 DEF Import, TypeOK, outside
    <2>3. ASSUME NEW k \in Key, MaintenancePlan(k) PROVE TypeOK'
      BY <2>3, <1>a DEF MaintenancePlan, TypeOK, PC, store, outside
    <2> QED BY <1>1, <2>1, <2>2, <2>3 DEF Wake
  <1>2. CASE Execution
    <2>1. CASE Decide
      <3>1. /\ op' \in Owner /\ op'.pc # "posted"
            /\ op'.pc \notin {"idle", "evaluating", "ending"} => op'.key \in Key
        <4>1. {"ready", "ending"} \subseteq PC
          BY DEF PC
        <4>2. ASSUME NEW k \in Key, op' = [At("ready") EXCEPT !.key = k, !.manual = TRUE]
              PROVE  op' \in Owner /\ op'.key \in Key /\ op'.pc = "ready"
          <5>1. At("ready") \in Owner /\ At("ready").pc = "ready"
            BY <4>1, <1>a
          <5> QED BY <5>1, <4>2 DEF Owner, Override
        <4>3. ASSUME NEW k \in Key, op' = [At("ready") EXCEPT !.key = k]
              PROVE  op' \in Owner /\ op'.key \in Key /\ op'.pc = "ready"
          BY <4>1, <4>3, <1>a
        <4> QED BY <2>1, <4>2, <4>3 DEF Decide
      <3> QED BY <2>1, <3>1 DEF Decide, TypeOK, store, outside
    <2>2. CASE SkipTrade
      BY <2>2 DEF SkipTrade, TypeOK, store, outside
    <2>3. CASE Claim
      <3>1. mem' \in Ledger
        <4>1. [Unexpired EXCEPT ![op.key] = clock + Lease] \in [Key -> Nat]
          <5>1. Unexpired \in [Key -> Nat]
            BY <1>0, LedgerTypes DEF Unexpired, TypeOK
          <5>2. clock + Lease \in Nat
            BY DEF TypeOK
          <5> QED BY <5>1, <5>2
        <4> QED BY <2>3, <4>1, <1>0, LedgerTypes DEF Claim
      <3>2. op' \in Owner /\ op'.key = op.key
        BY <2>3, <1>0 DEF Claim, TypeOK, At, Owner, PC
      <3>3. op'.pc = "lease"
        BY <2>3, <1>0 DEF Claim, At, Owner
      <3> QED BY <2>3, <3>1, <3>2, <3>3 DEF Claim, TypeOK, outside
    <2>4. CASE ClaimRefused
      <3>1. mem' \in Ledger
        <4>1. Unexpired \in [Key -> Nat]
          BY <1>0, LedgerTypes DEF Unexpired, TypeOK
        <4> QED BY <2>4, <4>1, <1>0, LedgerTypes DEF ClaimRefused
      <3> QED BY <2>4, <3>1 DEF ClaimRefused, TypeOK, outside
    <2>5. ASSUME NEW ok \in BOOLEAN, ActivatePair(ok) PROVE TypeOK'
      <3>1. mem' \in Ledger
        BY <2>5, <1>0, LedgerTypes DEF ActivatePair, TypeOK
      <3>2. op' \in Owner /\ (op'.pc \notin {"idle", "evaluating", "ending"} => op'.key = op.key)
        BY <2>5, <1>0, OwnerTypes DEF ActivatePair, At, PC
      <3>3. op'.pc # "posted"
        BY <2>5, <1>0, OwnerTypes DEF ActivatePair, At, PC
      <3> QED BY <2>5, <3>1, <3>2, <3>3 DEF ActivatePair, TypeOK, outside
    <2>6. CASE Post
      <3>1. orders' \in Seq(Order)
        BY <2>6, <1>0, OwnerTypes DEF Post, TypeOK, Order
      <3>2. op' \in Owner /\ op'.key = op.key
        <4>1. Len(orders) + 1 \in Nat
          BY DEF TypeOK
        <4>2. At("posted") \in Owner /\ At("posted").key = op.key
          BY <1>0, OwnerTypes DEF At, PC
        <4> QED BY <2>6, <4>1, <4>2 DEF Post, Owner
      <3>3. op'.order \in DOMAIN orders'
        BY <2>6, <1>0 DEF Post, TypeOK, At, Owner
      <3> QED BY <2>6, <3>1, <3>2, <3>3 DEF Post, TypeOK, store, outside
    <2>7. CASE TryAgain
      <3>1. op' \in Owner /\ op'.key = op.key
        <4>1. At("post") \in Owner /\ At("post").key = op.key
          BY <1>0, OwnerTypes DEF At, PC
        <4>2. At("post").mode + 1 \in Nat /\ (op.retries > 0 => At("post").retries - 1 \in Nat)
          BY <1>0 DEF At, Owner
        <4>3. CASE op.retries > 0 /\ op' = [At("post") EXCEPT !.mode = 1, !.retries = @ - 1]
          BY <4>1, <4>2, <4>3 DEF Owner
        <4>4. CASE op' = [At("post") EXCEPT !.mode = @ + 1]
          BY <4>1, <4>2, <4>4 DEF Owner
        <4> QED BY <2>7, <4>3, <4>4 DEF TryAgain
      <3>2. op'.pc = "post"
        BY <2>7, <1>0 DEF TryAgain, At, Owner
      <3> QED BY <2>7, <3>1, <3>2 DEF TryAgain, TypeOK, store, outside
    <2>8. CASE OrderFails
      BY <2>8 DEF OrderFails, TypeOK, store, outside
    <2>9. CASE OrderFilled
      <3>1. mem' \in Ledger
        <4>1. [id |-> op.order, key |-> op.key, ts |-> clock] \in Trade
          BY <2>9, <1>0, OwnerTypes DEF OrderFilled, TypeOK, Trade
        <4> DEFINE T == mem.trades \cup {[id |-> op.order, key |-> op.key, ts |-> clock]}
        <4>2. T \subseteq Trade
          BY <4>1, <1>0, LedgerTypes
        <4>3. mem' = [[mem EXCEPT !.lease[op.key] = 0] EXCEPT !.trades = T]
          BY <2>9, <1>0 DEF OrderFilled, Ledger
        <4>4. [mem EXCEPT !.lease[op.key] = 0] \in Ledger
          BY <2>9, <1>0, LedgerTypes DEF OrderFilled, TypeOK
        <4> QED BY <4>2, <4>3, <4>4, LedgerTypes
      <3>2. orders' \in Seq(Order)
        <4>1. op.order \in DOMAIN orders /\ [orders[op.order] EXCEPT !.known = TRUE] \in Order
          <5>1. op.order \in DOMAIN orders /\ orders[op.order] \in Order
            BY <2>9 DEF OrderFilled, TypeOK
          <5> QED BY <5>1, OrderTypes
        <4> QED BY <2>9, <4>1, ReplaceOrder DEF OrderFilled, TypeOK
      <3>3. promised' \in [pause : BOOLEAN, override : BOOLEAN]
        BY <2>9, <1>0, OwnerTypes DEF OrderFilled, TypeOK
      <3> QED BY <2>9, <3>1, <3>2, <3>3 DEF OrderFilled, TypeOK, Override
    <2> QED BY <1>2, <2>1, <2>2, <2>3, <2>4, <2>5, <2>6, <2>7, <2>8, <2>9 DEF Execution
  <1>3. CASE OwnerWrites
    <2>1. CASE OwnerBeginsWrite
      BY <2>1 DEF OwnerBeginsWrite, BeginWrite, TypeOK, outside
    <2>2. ASSUME NEW ok \in BOOLEAN, OwnerEndsWrite(ok) PROVE TypeOK'
      <3>1. disk' \in Ledger /\ writer' = NoWriter /\ events' \in Nat
        BY <2>2, <1>0 DEF OwnerEndsWrite, EndWrite, Event, TypeOK
      <3>2. mem' \in Ledger
        BY <2>2, <1>0, LedgerTypes DEF OwnerEndsWrite, TypeOK
      <3>3. op' \in Owner /\ (op'.pc \notin {"idle", "evaluating", "ending"} => op'.key = op.key /\ op.pc # "ending")
        BY <2>2, <1>0, OwnerTypes DEF OwnerEndsWrite, At, PC
      <3>4. op'.pc # "posted"
        BY <2>2, <1>0, OwnerTypes, SMTT(30) DEF OwnerEndsWrite, At, PC
      <3> QED BY <2>2, <3>1, <3>2, <3>3, <3>4 DEF OwnerEndsWrite, TypeOK
    <2> QED BY <1>3, <2>1, <2>2 DEF OwnerWrites
  <1>4. CASE Operator
    <2>1. CASE Pause
      <3>1. mem' \in Ledger
        BY <2>1, <1>0, LedgerTypes DEF Pause
      <3> QED BY <2>1, <3>1 DEF Pause, Handle, Event, TypeOK
    <2>2. CASE Resume
      <3>1. mem' \in Ledger
        BY <2>2, <1>0, LedgerTypes DEF Resume
      <3>2. promised' \in [pause : BOOLEAN, override : BOOLEAN]
        BY <2>2 DEF Resume, TypeOK
      <3> QED BY <2>2, <3>1, <3>2 DEF Resume, Handle, Event, TypeOK
    <2>3. ASSUME NEW ov \in Requests, SetOverride(ov) PROVE TypeOK'
      <3>1. promised' \in [pause : BOOLEAN, override : BOOLEAN]
        BY <2>3 DEF SetOverride, TypeOK
      <3> QED BY <2>3, <3>1 DEF SetOverride, Handle, Event, TypeOK, Override
    <2> QED BY <1>4, <2>1, <2>2, <2>3 DEF Operator
  <1>5. CASE WorkerBeginsWrite
    BY <1>5 DEF WorkerBeginsWrite, BeginWrite, Event, TypeOK
  <1>6. CASE ApiWrites
    <2>1. CASE ApiBeginsWrite
      BY <2>1 DEF ApiBeginsWrite, BeginWrite, TypeOK, outside
    <2>2. ASSUME NEW ok \in BOOLEAN, ApiEndsWrite(ok) PROVE TypeOK'
      <3>1. disk' \in Ledger /\ writer' = NoWriter /\ events' \in Nat
        BY <2>2, <1>0 DEF ApiEndsWrite, EndWrite, Event, TypeOK
      <3>2. promised' \in [pause : BOOLEAN, override : BOOLEAN]
        BY <2>2 DEF ApiEndsWrite, TypeOK
      <3> QED BY <2>2, <3>1, <3>2 DEF ApiEndsWrite, TypeOK
    <2> QED BY <1>6, <2>1, <2>2 DEF ApiWrites
  <1>7. CASE OctoBot
    <2>1. PICK i \in DOMAIN orders, s \in {"accepted", "rejected"} : Settle(i, s)
      BY <1>7 DEF OctoBot
    <2>2. orders' \in Seq(Order) /\ DOMAIN orders' = DOMAIN orders
      <3> DEFINE n == IF s = "accepted" THEN clock ELSE 0
      <3>1. n \in Nat
        BY DEF TypeOK
      <3>2. [orders[i] EXCEPT !.status = s, !.at = n] \in Order
        <4>1. orders[i] \in Order
          BY DEF TypeOK
        <4> QED BY <3>1, <4>1, OrderTypes
      <3> QED BY <2>1, <3>2, ReplaceOrder DEF Settle, TypeOK
    <2> QED BY <2>1, <2>2 DEF Settle, TypeOK, store, outside
  <1>8. CASE Crash
    BY <1>8 DEF Crash, Event, TypeOK, Override
  <1>9. CASE Tick
    BY <1>9 DEF Tick, TypeOK, store, outside
  <1>10. CASE UNCHANGED vars
    BY <1>10 DEF vars, TypeOK, store, outside
  <1> QED
    BY <1>1, <1>2, <1>3, <1>4, <1>5, <1>6, <1>7, <1>8, <1>9, <1>10 DEF Next

Parts == LockHeld /\ OwnLease /\ OpenLeased /\ ClaimedAlone /\ NoBlindRepeat /\ PauseSpread
Claimed == {"lease", "activate", "post", "posted"}

LEMMA OrderFacts ==
  ASSUME TypeOK
  PROVE  \A i \in DOMAIN orders : i \in Nat /\ orders[i].key \in Key /\ orders[i].claimed \in Nat
  <1>1. \A i \in DOMAIN orders : i \in Nat /\ orders[i] \in Order
    BY DEF TypeOK
  <1> QED BY <1>1, OrderTypes

(* The owner moves to a step where it holds no claim and writes nothing yet. *)
LEMMA QuietStep ==
  ASSUME IInv, UNCHANGED <<clock, store, orders, outside>>,
         op.pc \notin {"lease", "ending"}, op'.pc \notin Claimed
  PROVE  Parts'
  <1> USE DEF IInv, Parts, store, outside
  <1>1. LockHeld' /\ PauseSpread'
    BY DEF LockHeld, PauseSpread
  <1>2. OwnLease' /\ ClaimedAlone'
    BY DEF OwnLease, ClaimedAlone, Claimed
  <1>3. OpenLeased' /\ NoBlindRepeat'
    BY DEF OpenLeased, NoBlindRepeat, Everywhere, Leases, Open, Gail
  <1> QED BY <1>1, <1>2, <1>3

(* A lock holder begins with a snapshot of memory. *)
LEMMA BeginStep ==
  ASSUME IInv, NEW who \in {"owner", "api"}, BeginWrite(who), UNCHANGED <<clock, op, orders, promised>>,
         who = "owner" => op.pc \in {"lease", "ending"} /\ api' = api,
         who = "api" => api' # "idle" /\ (api' = "pause" => api = "pause")
  PROVE  Parts'
  <1> USE DEF IInv, Parts, BeginWrite
  <1>0. writer.who = "none" /\ writer'.who = who /\ writer'.snap = mem /\ mem' = mem /\ disk' = disk
    OBVIOUS
  <1>1. LockHeld'
    BY <1>0 DEF LockHeld
  <1>2. PauseSpread'
    BY <1>0 DEF PauseSpread
  <1>3. OwnLease' /\ ClaimedAlone'
    BY <1>0 DEF OwnLease, ClaimedAlone, Everywhere, Leases, Open, Gail
  <1>4. OpenLeased' /\ NoBlindRepeat'
    BY <1>0 DEF OpenLeased, NoBlindRepeat, Everywhere, Leases, Open, Gail
  <1> QED BY <1>1, <1>2, <1>3, <1>4

(* An intent without open orders may be released. *)
LEMMA ReleaseStep ==
  ASSUME IInv, TypeOK', UNCHANGED <<clock, orders>>, op.pc \in {"lease", "activate"}, op'.pc \notin Claimed,
         mem' = [mem EXCEPT !.lease[op.key] = 0]
  PROVE  /\ \A i \in DOMAIN orders :
              Open(orders[i]) /\ clock < orders[i].claimed + Lease
                => /\ orders[i].key # op.key
                   /\ Leases(mem', orders[i].key, orders[i].claimed + Lease)
         /\ mem'.paused = mem.paused
  <1> USE DEF IInv
  <1>1. /\ \A k \in Key : k # op.key => mem'.lease[k] = mem.lease[k]
        /\ mem'.paused = mem.paused
    BY DEF TypeOK, Ledger
  <1>2. ASSUME NEW i \in DOMAIN orders, Open(orders[i]), clock < orders[i].claimed + Lease
        PROVE  orders[i].key # op.key /\ Leases(mem', orders[i].key, orders[i].claimed + Lease)
    <2>1. orders[i].key \in Key /\ orders[i].claimed \in Nat /\ op.claimed \in Nat /\ clock \in Nat
      BY OrderFacts, OwnerTypes DEF TypeOK
    <2>2. op.claimed <= clock
      BY DEF OwnLease
    <2>3. orders[i].key # op.key
      BY <1>2, <2>1, <2>2, TradeConstants DEF ClaimedAlone
    <2> QED BY <1>1, <1>2, <2>1, <2>3 DEF OpenLeased, Everywhere, Leases
  <1> QED BY <1>1, <1>2

LEMMA StepIInv == IInv /\ [Next]_vars => IInv'
  <1> SUFFICES ASSUME IInv, [Next]_vars PROVE IInv'
    OBVIOUS
  <1> SUFFICES Parts'
    BY TypeStep DEF IInv, Parts
  <1> USE TradeConstants
  <1>0. TypeOK /\ TypeOK' /\ op \in Owner /\ mem \in Ledger /\ disk \in Ledger
    BY TypeStep DEF IInv, TypeOK
  <1>a. \A pc \in PC : At(pc).pc = pc /\ At(pc).key = op.key /\ At(pc).claimed = op.claimed
                       /\ At(pc).order = op.order
    BY <1>0 DEF At, Owner
  <1>b. \A i \in DOMAIN orders : i \in Nat /\ orders[i].key \in Key /\ orders[i].claimed \in Nat
    BY <1>0, OrderFacts
  <1>c. clock \in Nat /\ op.claimed \in Nat /\ mem.lease \in [Key -> Nat]
    BY <1>0, OwnerTypes, LedgerTypes DEF TypeOK
  <1>1. CASE Wake
    <2>1. CASE BeginEvaluation
      <3>1. op'.pc = "evaluating"
        BY <2>1, <1>0 DEF BeginEvaluation, At, Owner
      <3> QED BY <2>1, <3>1, QuietStep DEF BeginEvaluation, Claimed
    <2>2. CASE Import
      <3>1. op'.pc = "ending" /\ mem'.lease = mem.lease /\ mem'.paused = mem.paused
        BY <2>2, <1>0, BuiltTypes DEF Import, Ledger
      <3>2. UNCHANGED <<clock, disk, writer, orders, api, promised>> /\ op.pc = "idle"
        BY <2>2 DEF Import, outside
      <3>3. LockHeld' /\ PauseSpread' /\ OwnLease' /\ ClaimedAlone'
        BY <3>1, <3>2 DEF IInv, LockHeld, PauseSpread, OwnLease, ClaimedAlone
      <3>4. OpenLeased' /\ NoBlindRepeat'
        BY <3>1, <3>2 DEF IInv, OpenLeased, NoBlindRepeat, Everywhere, Leases
      <3> QED BY <3>3, <3>4 DEF Parts
    <2>3. ASSUME NEW k \in Key, MaintenancePlan(k) PROVE Parts'
      <3>1. op'.pc = "ready"
        BY <2>3, <1>0 DEF MaintenancePlan, At, Owner
      <3> QED BY <2>3, <3>1, QuietStep DEF MaintenancePlan, Claimed
    <2> QED BY <1>1, <2>1, <2>2, <2>3 DEF Wake
  <1>2. CASE Execution
    <2>1. CASE Decide
      <3>1. op'.pc \in {"ready", "ending"}
        BY <2>1, <1>0, BuiltTypes DEF Decide, At, Owner
      <3> QED BY <2>1, <3>1, QuietStep DEF Decide, Claimed
    <2>2. CASE SkipTrade
      BY <2>2, BuiltTypes, QuietStep DEF SkipTrade, Claimed
    <2>3. CASE Claim
      <3>1. /\ op'.pc = "lease" /\ op'.key = op.key /\ op'.claimed = clock
            /\ op.key \in Key /\ mem.lease[op.key] <= clock /\ op.pc = "ready"
        BY <2>3, <1>0 DEF Claim, At, Owner, PC, MayClaim, TypeOK
      <3>2. UNCHANGED <<clock, disk, writer, orders, api, promised>>
        BY <2>3 DEF Claim, outside
      <3>3. /\ mem'.paused = mem.paused
            /\ mem'.lease = [Unexpired EXCEPT ![op.key] = clock + Lease]
        BY <2>3, <1>0 DEF Claim, Ledger
      <3>4. /\ mem'.lease[op.key] = clock + Lease
            /\ \A k \in Key : k # op.key /\ mem.lease[k] > clock => mem'.lease[k] = mem.lease[k]
        BY <3>1, <3>3 DEF Unexpired
      <3>5. \A i \in DOMAIN orders :
               Open(orders[i]) /\ orders[i].key = op.key => clock >= orders[i].claimed + Lease
        BY <3>1, <1>b, <1>c DEF IInv, OpenLeased, Everywhere, Leases
      <3>6. LockHeld' /\ PauseSpread'
        BY <3>1, <3>2, <3>3 DEF IInv, LockHeld, PauseSpread
      <3>7. OwnLease'
        BY <3>1, <3>2, <3>4, <3>6, <1>c DEF IInv, OwnLease, LockHeld, Leases
      <3>8. ClaimedAlone'
        BY <3>1, <3>2, <3>5 DEF ClaimedAlone
      <3>9. OpenLeased'
        <4> SUFFICES ASSUME NEW i \in DOMAIN orders, Open(orders[i]), clock < orders[i].claimed + Lease
                     PROVE  Everywhere(orders[i].key, orders[i].claimed + Lease)'
          BY <3>2 DEF OpenLeased
        <4>1. orders[i].key # op.key
          BY <3>5, <1>b, <1>c
        <4>2. Everywhere(orders[i].key, orders[i].claimed + Lease)
          BY DEF IInv, OpenLeased
        <4>3. mem'.lease[orders[i].key] = mem.lease[orders[i].key]
          BY <4>1, <4>2, <3>4, <1>b, <1>c DEF Everywhere, Leases
        <4> QED BY <4>2, <4>3, <3>2 DEF Everywhere, Leases
      <3>10. NoBlindRepeat'
        BY <3>2 DEF IInv, NoBlindRepeat
      <3> QED BY <3>6, <3>7, <3>8, <3>9, <3>10 DEF Parts
    <2>4. CASE ClaimRefused
      <3>1. /\ op'.pc = "ending" /\ op.pc = "ready"
            /\ mem'.paused = mem.paused /\ mem'.lease = Unexpired
        BY <2>4, <1>0, BuiltTypes DEF ClaimRefused, Ledger
      <3>2. UNCHANGED <<clock, disk, writer, orders, api, promised>>
        BY <2>4 DEF ClaimRefused, outside
      <3>3. LockHeld' /\ PauseSpread' /\ OwnLease' /\ ClaimedAlone'
        BY <3>1, <3>2 DEF IInv, LockHeld, PauseSpread, OwnLease, ClaimedAlone
      <3>4. OpenLeased'
        <4> SUFFICES ASSUME NEW i \in DOMAIN orders, Open(orders[i]), clock < orders[i].claimed + Lease
                     PROVE  Everywhere(orders[i].key, orders[i].claimed + Lease)'
          BY <3>2 DEF OpenLeased
        <4>1. Everywhere(orders[i].key, orders[i].claimed + Lease)
          BY DEF IInv, OpenLeased
        <4>2. mem'.lease[orders[i].key] = mem.lease[orders[i].key]
          BY <4>1, <3>1, <1>b, <1>c DEF Everywhere, Leases, Unexpired
        <4> QED BY <4>1, <4>2, <3>2 DEF Everywhere, Leases
      <3>5. NoBlindRepeat'
        BY <3>2 DEF IInv, NoBlindRepeat
      <3> QED BY <3>3, <3>4, <3>5 DEF Parts
    <2>5. ASSUME NEW ok \in BOOLEAN, ActivatePair(ok) PROVE Parts'
      <3>0. UNCHANGED <<clock, disk, writer, orders, api, promised>> /\ op.pc = "activate"
        BY <2>5 DEF ActivatePair, outside
      <3>1. CASE ok
        <4>1. mem' = mem /\ op'.pc = "post" /\ op'.key = op.key /\ op'.claimed = op.claimed
          BY <2>5, <3>1, <1>a DEF ActivatePair, PC
        <4>2. LockHeld' /\ PauseSpread' /\ OwnLease' /\ ClaimedAlone'
          BY <3>0, <4>1 DEF IInv, LockHeld, PauseSpread, OwnLease, ClaimedAlone, Everywhere, Leases
        <4>3. OpenLeased' /\ NoBlindRepeat'
          BY <3>0, <4>1 DEF IInv, OpenLeased, NoBlindRepeat, Everywhere, Leases
        <4> QED BY <4>2, <4>3 DEF Parts
      <3>2. CASE ~ok
        <4>1. mem' = [mem EXCEPT !.lease[op.key] = 0] /\ op'.pc = "ending"
          BY <2>5, <3>2, BuiltTypes DEF ActivatePair
        <4>2. /\ mem'.paused = mem.paused
              /\ \A i \in DOMAIN orders :
                   Open(orders[i]) /\ clock < orders[i].claimed + Lease
                     => Leases(mem', orders[i].key, orders[i].claimed + Lease)
          BY <1>0, <3>0, <4>1, ReleaseStep DEF Claimed
        <4>3. LockHeld' /\ PauseSpread' /\ OwnLease' /\ ClaimedAlone'
          BY <3>0, <4>1, <4>2 DEF IInv, LockHeld, PauseSpread, OwnLease, ClaimedAlone
        <4>4. OpenLeased' /\ NoBlindRepeat'
          BY <3>0, <4>2 DEF IInv, OpenLeased, NoBlindRepeat, Everywhere, Leases
        <4> QED BY <4>3, <4>4 DEF Parts
      <3> QED BY <3>1, <3>2
    <2>6. CASE Post
      <3> DEFINE o == [key |-> op.key, claimed |-> op.claimed,
                       by |-> IF op.manual THEN "manual" ELSE "auto",
                       status |-> "pending", at |-> 0, known |-> FALSE]
                 n == Len(orders) + 1
      <3>1. /\ UNCHANGED <<clock, mem, disk, writer, api, promised>> /\ op.pc = "post"
            /\ op'.pc = "posted" /\ op'.key = op.key /\ op'.claimed = op.claimed /\ op'.order = n
        BY <2>6, <1>0 DEF Post, At, Owner, store, outside, PC
      <3>2. /\ DOMAIN orders' = DOMAIN orders \cup {n} /\ n \notin DOMAIN orders
            /\ orders'[n] = o /\ \A i \in DOMAIN orders : orders'[i] = orders[i] /\ i < n
        BY <2>6, <1>0, SMTT(30) DEF Post, TypeOK
      <3>3. LockHeld' /\ PauseSpread' /\ OwnLease'
        BY <3>1 DEF IInv, LockHeld, PauseSpread, OwnLease, Everywhere, Leases
      <3>4. ClaimedAlone'
        BY <3>1, <3>2 DEF IInv, ClaimedAlone
      <3>5. OpenLeased'
        BY <3>1, <3>2 DEF IInv, OpenLeased, OwnLease, Everywhere, Leases
      <3>6. NoBlindRepeat'
        BY <3>1, <3>2, <1>b DEF IInv, NoBlindRepeat, ClaimedAlone, Open
      <3> QED BY <3>3, <3>4, <3>5, <3>6 DEF Parts
    <2>7. CASE TryAgain
      <3>1. /\ UNCHANGED <<clock, mem, disk, writer, orders, api, promised>> /\ op.pc = "posted"
            /\ orders[op.order].status = "rejected"
        BY <2>7 DEF TryAgain, Refused, store, outside
      <3>2. op'.pc = "post" /\ op'.key = op.key /\ op'.claimed = op.claimed
        BY <2>7, <1>0 DEF TryAgain, At, Owner
      <3>3. LockHeld' /\ PauseSpread' /\ OwnLease'
        BY <3>1, <3>2 DEF IInv, LockHeld, PauseSpread, OwnLease, Everywhere, Leases
      <3>4. ClaimedAlone'
        BY <3>1, <3>2 DEF IInv, ClaimedAlone, Open
      <3>5. OpenLeased' /\ NoBlindRepeat'
        BY <3>1 DEF IInv, OpenLeased, NoBlindRepeat, Everywhere, Leases
      <3> QED BY <3>3, <3>4, <3>5 DEF Parts
    <2>8. CASE OrderFails
      BY <2>8, BuiltTypes, QuietStep DEF OrderFails, Claimed
    <2>9. CASE OrderFilled
      <3>1. /\ UNCHANGED <<clock, disk, writer, api>> /\ op.pc = "posted" /\ op'.pc = "ending"
            /\ op.order \in DOMAIN orders /\ op.key \in Key /\ op.claimed <= clock
        BY <2>9, <1>0, BuiltTypes DEF OrderFilled, TypeOK, IInv, OwnLease
      <3>2. /\ mem'.paused = mem.paused /\ promised'.pause = promised.pause
            /\ \A k \in Key : k # op.key => mem'.lease[k] = mem.lease[k]
        BY <2>9, <1>0 DEF OrderFilled, Ledger, TypeOK
      <3>3. /\ DOMAIN orders' = DOMAIN orders
            /\ orders'[op.order] = [orders[op.order] EXCEPT !.known = TRUE]
            /\ \A i \in DOMAIN orders : i # op.order => orders'[i] = orders[i]
        BY <2>9, <3>1, <1>0 DEF OrderFilled, TypeOK
      <3>4. /\ orders'[op.order].known /\ orders'[op.order].key = orders[op.order].key
            /\ orders'[op.order].claimed = orders[op.order].claimed
            /\ orders'[op.order].by = orders[op.order].by
        <4>1. orders[op.order] \in Order
          BY <3>1, <1>0 DEF TypeOK
        <4> QED BY <3>3, <4>1 DEF Order
      <3>5. LockHeld' /\ PauseSpread' /\ OwnLease' /\ ClaimedAlone'
        BY <3>1, <3>2 DEF IInv, LockHeld, PauseSpread, OwnLease, ClaimedAlone
      <3>6. OpenLeased'
        <4> SUFFICES ASSUME NEW i \in DOMAIN orders, i # op.order, Open(orders[i]),
                            clock < orders[i].claimed + Lease
                     PROVE  Everywhere(orders[i].key, orders[i].claimed + Lease)'
          BY <3>1, <3>3, <3>4 DEF OpenLeased, Open
        <4>1. orders[i].key # op.key
          BY <3>1, <1>b, <1>c DEF IInv, ClaimedAlone
        <4>2. Everywhere(orders[i].key, orders[i].claimed + Lease)
          BY DEF IInv, OpenLeased
        <4> QED BY <4>1, <4>2, <3>1, <3>2, <3>3, <1>b DEF Everywhere, Leases
      <3>7. NoBlindRepeat'
        <4>1. \A i \in DOMAIN orders : /\ orders'[i].key = orders[i].key
                                       /\ orders'[i].claimed = orders[i].claimed
                                       /\ orders'[i].by = orders[i].by
                                       /\ Open(orders'[i]) => Open(orders[i])
          BY <3>3, <3>4 DEF Gail, Open
        <4>2. DOMAIN orders' = DOMAIN orders
          BY <3>3
        <4> QED BY <4>1, <4>2 DEF IInv, NoBlindRepeat, Open, Gail
      <3> QED BY <3>5, <3>6, <3>7 DEF Parts
    <2> QED BY <1>2, <2>1, <2>2, <2>3, <2>4, <2>5, <2>6, <2>7, <2>8, <2>9 DEF Execution
  <1>3. CASE OwnerWrites
    <2>1. CASE OwnerBeginsWrite
      BY <2>1, BeginStep DEF OwnerBeginsWrite, outside
    <2>2. ASSUME NEW ok \in BOOLEAN, OwnerEndsWrite(ok) PROVE Parts'
      <3>1. /\ UNCHANGED <<clock, orders, api, promised>> /\ writer.who = "owner" /\ writer'.who = "none"
            /\ disk' = IF ok THEN writer.snap ELSE disk
            /\ op.pc \in {"lease", "ending"}
        BY <2>2 DEF OwnerEndsWrite, EndWrite, NoWriter
      <3>2. LockHeld'
        BY <3>1 DEF LockHeld
      <3>3. NoBlindRepeat'
        BY <3>1 DEF IInv, NoBlindRepeat
      <3>4. CASE op.pc = "lease" /\ ok
        <4>1. mem' = mem /\ op'.pc = "activate" /\ op'.key = op.key /\ op'.claimed = op.claimed
          BY <2>2, <3>4, <1>a DEF OwnerEndsWrite, PC
        <4>2. OwnLease' /\ PauseSpread' /\ ClaimedAlone'
          BY <3>1, <3>4, <4>1 DEF IInv, OwnLease, PauseSpread, ClaimedAlone, Everywhere, Leases
        <4>3. OpenLeased'
          BY <3>1, <3>4, <4>1 DEF IInv, OpenLeased, Everywhere, Leases
        <4> QED BY <3>2, <3>3, <4>2, <4>3 DEF Parts
      <3>5. CASE op.pc = "lease" /\ ~ok
        <4>1. mem' = [mem EXCEPT !.lease[op.key] = 0] /\ op'.pc = "ending" /\ disk' = disk
          BY <2>2, <3>1, <3>5, BuiltTypes DEF OwnerEndsWrite
        <4>2. /\ mem'.paused = mem.paused
              /\ \A i \in DOMAIN orders :
                   Open(orders[i]) /\ clock < orders[i].claimed + Lease
                     => Leases(mem', orders[i].key, orders[i].claimed + Lease)
          BY <1>0, <3>1, <3>5, <4>1, ReleaseStep DEF Claimed
        <4>3. OwnLease' /\ PauseSpread' /\ ClaimedAlone'
          BY <3>1, <4>1, <4>2 DEF IInv, OwnLease, PauseSpread, ClaimedAlone
        <4>4. OpenLeased'
          BY <3>1, <4>1, <4>2 DEF IInv, OpenLeased, Everywhere, Leases
        <4> QED BY <3>2, <3>3, <4>3, <4>4 DEF Parts
      <3>6. CASE op.pc = "ending"
        <4>1. mem' = mem /\ op'.pc = "idle"
          BY <2>2, <3>6, BuiltTypes DEF OwnerEndsWrite
        <4>2. OwnLease' /\ PauseSpread' /\ ClaimedAlone'
          BY <3>1, <4>1 DEF IInv, OwnLease, PauseSpread, ClaimedAlone
        <4>3. OpenLeased'
          BY <3>1, <4>1 DEF IInv, OpenLeased, Everywhere, Leases
        <4> QED BY <3>2, <3>3, <4>2, <4>3 DEF Parts
      <3> QED BY <3>1, <3>4, <3>5, <3>6
    <2> QED BY <1>3, <2>1, <2>2 DEF OwnerWrites
  <1>4. CASE Operator
    <2>1. /\ UNCHANGED <<clock, disk, writer, op, orders>> /\ api = "idle"
          /\ api' \in {"pause", "resume", "override"}
      BY <1>4 DEF Operator, Pause, Resume, SetOverride, Handle
    <2>2. mem'.lease = mem.lease
      BY <1>4, <1>0 DEF Operator, Pause, Resume, SetOverride, Ledger
    <2>3. LockHeld' /\ OwnLease' /\ ClaimedAlone'
      BY <2>1, <2>2 DEF IInv, LockHeld, OwnLease, ClaimedAlone, Everywhere, Leases
    <2>4. OpenLeased' /\ NoBlindRepeat'
      BY <2>1, <2>2 DEF IInv, OpenLeased, NoBlindRepeat, Everywhere, Leases
    <2>5. PauseSpread'
      <3>0. writer.who # "api"
        BY <2>1 DEF IInv, LockHeld
      <3>1. CASE Pause
        <4>1. mem'.paused /\ promised' = promised
          BY <3>1, <1>0 DEF Pause, Ledger
        <4> QED BY <2>1, <3>0, <4>1 DEF IInv, PauseSpread
      <3>2. CASE Resume
        <4>1. ~promised'.pause /\ api' = "resume"
          BY <3>2, <1>0 DEF Resume, Handle, TypeOK
        <4> QED BY <4>1 DEF PauseSpread
      <3>3. ASSUME NEW ov \in Requests, SetOverride(ov) PROVE PauseSpread'
        <4>1. promised'.pause = promised.pause /\ api' = "override" /\ mem' = mem
          BY <3>3, <1>0 DEF SetOverride, Handle, TypeOK
        <4> QED BY <2>1, <4>1 DEF IInv, PauseSpread
      <3> QED BY <1>4, <3>1, <3>2, <3>3 DEF Operator
    <2> QED BY <2>3, <2>4, <2>5 DEF Parts
  <1>5. CASE WorkerBeginsWrite
    BY <1>5, BeginStep DEF WorkerBeginsWrite
  <1>6. CASE ApiWrites
    <2>1. CASE ApiBeginsWrite
      BY <2>1, BeginStep DEF ApiBeginsWrite, outside
    <2>2. ASSUME NEW ok \in BOOLEAN, ApiEndsWrite(ok) PROVE Parts'
      <3>1. /\ UNCHANGED <<clock, mem, op, orders>> /\ writer.who = "api" /\ writer'.who = "none"
            /\ disk' = IF ok THEN writer.snap ELSE disk
            /\ api' = "idle"
            /\ promised'.pause = (promised.pause \/ (ok /\ api = "pause"))
        BY <2>2 DEF ApiEndsWrite, EndWrite, NoWriter
      <3>2. LockHeld' /\ NoBlindRepeat' /\ ClaimedAlone'
        BY <3>1 DEF IInv, LockHeld, NoBlindRepeat, ClaimedAlone
      <3>3. OwnLease' /\ OpenLeased'
        BY <3>1 DEF IInv, OwnLease, OpenLeased, Everywhere, Leases
      <3>4. PauseSpread'
        BY <3>1 DEF IInv, PauseSpread
      <3> QED BY <3>2, <3>3, <3>4 DEF Parts
    <2> QED BY <1>6, <2>1, <2>2 DEF ApiWrites
  <1>7. CASE OctoBot
    <2>1. PICK j \in DOMAIN orders, s \in {"accepted", "rejected"} : Settle(j, s)
      BY <1>7 DEF OctoBot
    <2>2. UNCHANGED <<clock, mem, disk, writer, op, api, promised>>
      BY <2>1 DEF Settle, store, outside
    <2>3. /\ DOMAIN orders' = DOMAIN orders
          /\ \A i \in DOMAIN orders : /\ orders'[i].key = orders[i].key
                                      /\ orders'[i].claimed = orders[i].claimed
                                      /\ orders'[i].by = orders[i].by
                                      /\ Open(orders'[i]) => Open(orders[i])
      <3>1. \A i \in DOMAIN orders : orders[i] \in Order
        BY <1>0 DEF TypeOK
      <3>2. DOMAIN orders' = DOMAIN orders /\ \A i \in DOMAIN orders : i # j => orders'[i] = orders[i]
        BY <2>1, <1>0 DEF Settle, TypeOK
      <3>3. /\ orders[j].status = "pending"
            /\ orders'[j] = [orders[j] EXCEPT !.status = s,
                                              !.at = IF s = "accepted" THEN clock ELSE 0]
        BY <2>1, <1>0 DEF Settle, TypeOK
      <3>4. /\ orders'[j].key = orders[j].key /\ orders'[j].claimed = orders[j].claimed
            /\ orders'[j].by = orders[j].by /\ orders'[j].known = orders[j].known
        BY <3>1, <3>3 DEF Order
      <3> QED BY <3>2, <3>3, <3>4 DEF Open, Gail
    <2>4. LockHeld' /\ PauseSpread' /\ OwnLease'
      BY <2>2 DEF IInv, LockHeld, PauseSpread, OwnLease, Everywhere, Leases
    <2>5. ClaimedAlone' /\ OpenLeased'
      BY <2>2, <2>3 DEF IInv, ClaimedAlone, OpenLeased, Everywhere, Leases
    <2>6. NoBlindRepeat'
      BY <2>3 DEF IInv, NoBlindRepeat, Open, Gail
    <2> QED BY <2>4, <2>5, <2>6 DEF Parts
  <1>8. CASE Crash
    <2>1. /\ mem' = disk /\ disk' = disk /\ writer'.who = "none" /\ op'.pc = "idle" /\ api' = "idle"
          /\ UNCHANGED <<clock, orders, promised>>
      BY <1>8, BuiltTypes DEF Crash, NoWriter
    <2>2. LockHeld' /\ PauseSpread' /\ OwnLease' /\ ClaimedAlone'
      BY <2>1 DEF IInv, LockHeld, PauseSpread, OwnLease, ClaimedAlone
    <2>3. OpenLeased' /\ NoBlindRepeat'
      BY <2>1 DEF IInv, OpenLeased, NoBlindRepeat, Everywhere, Leases
    <2> QED BY <2>2, <2>3 DEF Parts
  <1>9. CASE Tick
    <2>1. UNCHANGED <<mem, disk, writer, op, orders, api, promised>> /\ clock' = clock + 1
      BY <1>9 DEF Tick, store, outside
    <2>2. LockHeld' /\ PauseSpread' /\ ClaimedAlone' /\ NoBlindRepeat'
      BY <2>1 DEF IInv, LockHeld, PauseSpread, ClaimedAlone, NoBlindRepeat
    <2>3. OwnLease'
      BY <2>1, <1>c DEF IInv, OwnLease, Everywhere, Leases
    <2>4. OpenLeased'
      BY <2>1, <1>b, <1>c DEF IInv, OpenLeased, Everywhere, Leases
    <2> QED BY <2>2, <2>3, <2>4 DEF Parts
  <1>10. CASE UNCHANGED vars
    <2>1. UNCHANGED <<clock, mem, disk, writer, op, orders, api, promised>>
      BY <1>10 DEF vars, store, outside
    <2>2. LockHeld' /\ PauseSpread' /\ ClaimedAlone' /\ NoBlindRepeat'
      BY <2>1 DEF IInv, LockHeld, PauseSpread, ClaimedAlone, NoBlindRepeat
    <2>3. OwnLease' /\ OpenLeased'
      BY <2>1 DEF IInv, OwnLease, OpenLeased, Everywhere, Leases
    <2> QED BY <2>2, <2>3 DEF Parts
  <1> QED
    BY <1>1, <1>2, <1>3, <1>4, <1>5, <1>6, <1>7, <1>8, <1>9, <1>10 DEF Next

(* The whole invariant holds in every reachable state. *)
THEOREM Inductive == Spec => []IInv
  BY InitIInv, StepIInv, PTL DEF Spec

(* The state keeps its types, and only an actionable decision is executed. *)
THEOREM TradeTypes == Spec => []TypeOK
  <1>1. IInv => TypeOK
    BY DEF IInv
  <1> QED BY Inductive, <1>1, PTL

(* execute_if_warranted never submits an order while an earlier one of its
   intent may still be filled, whatever was lost, saved late or restarted. *)
THEOREM NeverBlind == Spec => []NoBlindRepeat
  <1>1. IInv => NoBlindRepeat
    BY DEF IInv
  <1> QED BY Inductive, <1>1, PTL

(* claim_execution_intent and persist_checked keep the lease of an unsettled
   order in memory and in the file. *)
THEOREM LeaseIsDurable == Spec => []UnsettledIsLeased
  <1>1. IInv => UnsettledIsLeased
    BY DEF IInv, UnsettledIsLeased, OpenLeased, Open, Everywhere, Leases
  <1> QED BY Inductive, <1>1, PTL

(* A pause acknowledged by trading_pause survives saves and restarts. *)
THEOREM PauseIsDurable == Spec => []PauseSurvives
  <1>1. IInv => PauseSurvives
    BY DEF IInv, PauseSurvives, PauseSpread
  <1> QED BY Inductive, <1>1, PTL
-----------------------------------------------------------------------------
(* The cooldown.  What claim_execution_intent sees of an earlier order is its
   lease or a row of the ring, in whichever ledger the process goes on with. *)

Filled(o) == Gail(o) /\ o.known
Names(L, i) == \E t \in L.trades : t.id = i
Knows(L, i, k, until, now) == Names(L, i) \/ L.lease[k] >= until \/ now >= until
Remembers(L, i) == Knows(L, i, orders[i].key, orders[i].claimed + Lease, clock)

(* Orders are claimed in their order and filled after they were claimed; the
   owner waits for the last one. *)
OrdersInv ==
  /\ \A i \in DOMAIN orders :
       /\ orders[i].claimed <= clock /\ orders[i].at <= clock
       /\ orders[i].status = "accepted" => orders[i].at >= orders[i].claimed
       /\ Filled(orders[i]) => orders[i].status = "accepted"
  /\ \A i, j \in DOMAIN orders : i < j => orders[i].claimed <= orders[j].claimed
  /\ op.pc \in Claimed => \A i \in DOMAIN orders : orders[i].claimed <= op.claimed
  /\ op.pc = "posted" => /\ op.order = Len(orders) /\ orders[op.order].claimed = op.claimed
                         /\ orders[op.order].key = op.key /\ Gail(orders[op.order])

(* A row of a history is an accepted order; it is dated by the fill, or by its
   acknowledgement, before which no later order was claimed. *)
RowOK(t) ==
  /\ t.id \in DOMAIN orders
  /\ orders[t.id].status = "accepted" /\ orders[t.id].key = t.key
  /\ orders[t.id].at <= t.ts /\ t.ts <= clock
  /\ orders[t.id].at < t.ts => \A j \in DOMAIN orders : t.id < j => t.ts <= orders[j].claimed
  /\ op.pc \in Claimed => t.ts <= op.claimed
  /\ op.pc = "posted" => t.id # op.order

OneRowEach(T) == \A t, u \in T : t.id = u.id => t = u
RowsOK(T) == OneRowEach(T) /\ \A t \in T : RowOK(t)
TradesInv == RowsOK(mem.trades) /\ RowsOK(disk.trades) /\ RowsOK(writer.snap.trades)

(* Every ledger knows every filled order until its lease would have run out,
   and memory needs no lease for those of the intent that is claimed. *)
MemoryInv ==
  /\ \A i \in DOMAIN orders : Filled(orders[i]) =>
       /\ Remembers(mem, i) /\ Remembers(disk, i)
       /\ writer.who # "none" => Remembers(writer.snap, i)
  /\ op.pc \in Claimed => \A i \in DOMAIN orders :
       Filled(orders[i]) /\ orders[i].key = op.key
         => Names(mem, i) \/ clock >= orders[i].claimed + Lease

Least == IF Cooldown < Lease THEN Cooldown ELSE Lease
Since(i) == {n \in DOMAIN orders \ {i} : /\ orders[n].status = "accepted"
                                         /\ orders[n].at >= orders[i].claimed}
Crowded(i) == Cardinality(Since(i)) >= RingSize

(* Whoever claims an intent of Gail's own accord keeps its distance from the
   earlier orders, or the ring has lost them. *)
CoolInv ==
  op.pc \in Claimed /\ ~op.manual => \A i \in DOMAIN orders :
    /\ Gail(orders[i]) /\ orders[i].status # "rejected" /\ orders[i].key = op.key
    /\ ~(op.pc = "posted" /\ i = op.order)
    => op.claimed >= orders[i].claimed + Least \/ Crowded(i)

RingInv == OrdersInv /\ TradesInv /\ MemoryInv /\ CoolInv /\ CooldownHolds

(* The numbers of a well-typed state. *)
LEMMA Numbers ==
  ASSUME TypeOK
  PROVE  /\ clock \in Nat /\ op.claimed \in Nat /\ op.manual \in BOOLEAN
         /\ Len(orders) \in Nat /\ DOMAIN orders = 1 .. Len(orders)
         /\ \A i \in DOMAIN orders :
              /\ i \in Nat /\ orders[i].key \in Key /\ orders[i].claimed \in Nat
              /\ orders[i].at \in Nat /\ orders[i].known \in BOOLEAN
              /\ orders[i].status \in {"pending", "accepted", "rejected"}
         /\ \A k \in Key : mem.lease[k] \in Nat /\ disk.lease[k] \in Nat /\ writer.snap.lease[k] \in Nat
         /\ mem.trades \subseteq Trade /\ disk.trades \subseteq Trade /\ writer.snap.trades \subseteq Trade
         /\ Lease \in Nat \ {0} /\ Cooldown \in Nat /\ RingSize \in Nat /\ Least \in Nat
         /\ Least <= Cooldown /\ Least <= Lease
  <1>1. \A i \in DOMAIN orders : i \in Nat /\ orders[i] \in Order
    BY DEF TypeOK
  <1>2. \A i \in DOMAIN orders :
          /\ i \in Nat /\ orders[i].key \in Key /\ orders[i].claimed \in Nat
          /\ orders[i].at \in Nat /\ orders[i].known \in BOOLEAN
          /\ orders[i].status \in {"pending", "accepted", "rejected"}
    BY <1>1 DEF Order
  <1>3. mem \in Ledger /\ disk \in Ledger /\ writer.snap \in Ledger /\ op \in Owner
    BY DEF TypeOK
  <1>4. /\ \A k \in Key : mem.lease[k] \in Nat /\ disk.lease[k] \in Nat /\ writer.snap.lease[k] \in Nat
        /\ mem.trades \subseteq Trade /\ disk.trades \subseteq Trade /\ writer.snap.trades \subseteq Trade
    BY <1>3 DEF Ledger
  <1>5. Lease \in Nat \ {0} /\ Cooldown \in Nat /\ RingSize \in Nat /\ Least \in Nat
        /\ Least <= Cooldown /\ Least <= Lease
    BY TradeConstants DEF Least
  <1>6. op.claimed \in Nat /\ op.manual \in BOOLEAN
    BY <1>3 DEF Owner
  <1>7. clock \in Nat /\ Len(orders) \in Nat /\ DOMAIN orders = 1 .. Len(orders)
    BY DEF TypeOK
  <1> QED BY <1>2, <1>4, <1>5, <1>6, <1>7

LEMMA SomeOrders ==
  ASSUME TypeOK, NEW S, S \subseteq DOMAIN orders
  PROVE  IsFiniteSet(S) /\ Cardinality(S) \in Nat
  <1>1. IsFiniteSet(1 .. Len(orders))
    BY Numbers, FS_Interval
  <1>2. IsFiniteSet(S)
    BY <1>1, Numbers, FS_Subset
  <1> QED BY <1>2, FS_CardinalityType

(* Knowledge is lost with a row or a lease only. *)
LEMMA KnowledgeStays ==
  ASSUME NEW L, NEW M, NEW i, NEW k, NEW until \in Nat, NEW now \in Nat, NEW later \in Nat,
         now <= later, Knows(L, i, k, until, now), L.trades \subseteq M.trades,
         L.lease[k] \in Nat, M.lease[k] = L.lease[k] \/ L.lease[k] <= later
  PROVE  Knows(M, i, k, until, later)
  BY DEF Knows, Names

(* The owner stays in its claim, or has none. *)
OwnerGoes ==
  /\ op'.pc \in Claimed => /\ op.pc \in Claimed /\ op'.claimed = op.claimed
                           /\ op'.key = op.key /\ op'.manual = op.manual
  /\ op'.pc = "posted" => op.pc = "posted" /\ op'.order = op.order
  /\ op.pc = "posted" /\ op'.pc \in Claimed /\ op'.pc # "posted"
       => orders[op.order].status = "rejected"

(* Orders and time stand, whatever happens to the ledgers. *)
LEMMA OrdersStand ==
  ASSUME TypeOK, TypeOK', RingInv, UNCHANGED orders, clock <= clock', OwnerGoes
  PROVE  OrdersInv' /\ CoolInv' /\ CooldownHolds'
  <1> USE Numbers DEF OwnerGoes, RingInv
  <1>0. \A i \in DOMAIN orders : Since(i)' = Since(i)
    BY DEF Since
  <1>1. OrdersInv'
    <2>1. OrdersInv /\ clock \in Nat /\ clock' \in Nat
      BY DEF TypeOK
    <2>2. \A i \in DOMAIN orders' :
            /\ orders'[i].claimed <= clock' /\ orders'[i].at <= clock'
            /\ orders'[i].status = "accepted" => orders'[i].at >= orders'[i].claimed
            /\ Filled(orders'[i]) => orders'[i].status = "accepted"
      BY <2>1 DEF OrdersInv
    <2>3. op'.pc \in Claimed => \A i \in DOMAIN orders' : orders'[i].claimed <= op'.claimed
      BY <2>1 DEF OrdersInv
    <2>4. op'.pc = "posted" => /\ op'.order = Len(orders') /\ orders'[op'.order].claimed = op'.claimed
                               /\ orders'[op'.order].key = op'.key /\ Gail(orders'[op'.order])
      BY <2>1 DEF OrdersInv, Claimed
    <2> QED BY <2>1, <2>2, <2>3, <2>4 DEF OrdersInv, Filled, Gail
  <1>2. CoolInv'
    BY <1>0 DEF CoolInv, Gail, Crowded, Claimed
  <1>3. CooldownHolds'
    BY SMTT(30) DEF CooldownHolds, Gail
  <1> QED BY <1>1, <1>2, <1>3

LEMMA RowStands ==
  ASSUME TypeOK, TypeOK', UNCHANGED orders, clock <= clock', OwnerGoes, NEW t \in Trade, RowOK(t)
  PROVE  RowOK(t)'
  <1>1. t.ts \in Nat /\ clock \in Nat /\ clock' \in Nat
    BY DEF TypeOK, Trade
  <1>2. t.id \in DOMAIN orders /\ t.ts <= clock'
    BY <1>1 DEF RowOK
  <1>3. op'.pc \in Claimed => t.ts <= op'.claimed
    BY DEF RowOK, OwnerGoes
  <1>4. op'.pc = "posted" => t.id # op'.order
    BY DEF RowOK, OwnerGoes
  <1> QED BY <1>2, <1>3, <1>4 DEF RowOK

LEMMA TradesStand ==
  ASSUME TypeOK, TypeOK', TradesInv, UNCHANGED orders, clock <= clock', OwnerGoes,
         mem'.trades \in {mem.trades, disk.trades},
         disk'.trades \in {disk.trades, writer.snap.trades},
         writer'.snap.trades \in {writer.snap.trades, mem.trades, {}}
  PROVE  TradesInv'
  <1>1. \A T \in {mem.trades, disk.trades, writer.snap.trades, {}} :
           OneRowEach(T) /\ \A t \in T : RowOK(t)'
    BY RowStands, Numbers DEF TradesInv, RowsOK, OneRowEach
  <1>2. \A T \in {mem'.trades, disk'.trades, writer'.snap.trades} :
           OneRowEach(T) /\ \A t \in T : RowOK(t)'
    BY <1>1
  <1>3. OneRowEach(mem.trades)' /\ OneRowEach(disk.trades)' /\ OneRowEach(writer.snap.trades)'
    BY <1>2 DEF OneRowEach
  <1> QED BY <1>2, <1>3 DEF TradesInv, RowsOK

(* Memory goes on with its rows, and gives up only leases that have run out or
   that the owner took; or it is what the file holds, and nobody owns a claim. *)
MemoryGoes ==
  \/ /\ mem.trades \subseteq mem'.trades
     /\ \A k \in Key : \/ mem'.lease[k] = mem.lease[k] \/ mem.lease[k] <= clock'
                       \/ op.pc \in Claimed /\ k = op.key
  \/ mem' = disk
FileGoes == disk' = disk \/ (writer.who # "none" /\ disk' = writer.snap)
SnapshotGoes == writer'.who # "none" => writer' = writer \/ writer'.snap = mem

LEMMA LedgersKnow ==
  ASSUME TypeOK, RingInv, clock' \in Nat, clock <= clock', MemoryGoes, FileGoes, SnapshotGoes,
         NEW i \in DOMAIN orders, Filled(orders[i])
  PROVE  LET k == orders[i].key  until == orders[i].claimed + Lease
         IN  /\ Knows(mem', i, k, until, clock') /\ Knows(disk', i, k, until, clock')
             /\ writer'.who # "none" => Knows(writer'.snap, i, k, until, clock')
  <1> DEFINE k == orders[i].key
             until == orders[i].claimed + Lease
  <1>1. k \in Key /\ until \in Nat /\ clock \in Nat
    BY Numbers
  <1>2. /\ Knows(mem, i, k, until, clock) /\ Knows(disk, i, k, until, clock)
        /\ writer.who # "none" => Knows(writer.snap, i, k, until, clock)
        /\ op.pc \in Claimed /\ k = op.key => Names(mem, i) \/ clock >= until
    BY DEF RingInv, MemoryInv, Remembers
  <1>3. /\ mem.lease[k] \in Nat /\ disk.lease[k] \in Nat /\ writer.snap.lease[k] \in Nat
    BY <1>1, Numbers
  <1> HIDE DEF k, until
  <1>4. /\ Knows(mem, i, k, until, clock') /\ Knows(disk, i, k, until, clock')
        /\ writer.who # "none" => Knows(writer.snap, i, k, until, clock')
    BY <1>1, <1>2 DEF Knows
  <1>5. Knows(mem', i, k, until, clock')
    BY <1>1, <1>2, <1>3, <1>4 DEF MemoryGoes, Knows, Names
  <1>6. Knows(disk', i, k, until, clock')
    BY <1>4 DEF FileGoes
  <1>7. writer'.who # "none" => Knows(writer'.snap, i, k, until, clock')
    BY <1>4 DEF SnapshotGoes
  <1> QED BY <1>5, <1>6, <1>7 DEF k, until

LEMMA MemoryStands ==
  ASSUME TypeOK, TypeOK', RingInv, UNCHANGED orders, clock <= clock', MemoryGoes, FileGoes,
         SnapshotGoes, OwnerGoes, op'.pc \in Claimed => mem'.trades = mem.trades
  PROVE  MemoryInv'
  <1>1. clock' \in Nat /\ clock \in Nat
    BY Numbers DEF TypeOK
  <1>2. \A i \in DOMAIN orders : Filled(orders[i]) =>
          /\ Remembers(mem, i)' /\ Remembers(disk, i)'
          /\ writer'.who # "none" => Remembers(writer.snap, i)'
    BY <1>1, LedgersKnow DEF Remembers
  <1>3. op'.pc \in Claimed => \A i \in DOMAIN orders :
          Filled(orders[i]) /\ orders[i].key = op'.key
            => Names(mem', i) \/ clock' >= orders[i].claimed + Lease
    BY <1>1, Numbers DEF OwnerGoes, RingInv, MemoryInv, Names
  <1> QED BY <1>2, <1>3 DEF MemoryInv

(* What most steps do: the orders stand, the ledgers go on. *)
LEMMA RingStands ==
  ASSUME TypeOK, TypeOK', RingInv, UNCHANGED orders, clock <= clock', OwnerGoes,
         MemoryGoes, FileGoes, SnapshotGoes,
         mem'.trades \in {mem.trades, disk.trades},
         op'.pc \in Claimed => mem'.trades = mem.trades,
         writer'.snap.trades \in {writer.snap.trades, mem.trades, {}}
  PROVE  RingInv'
  <1>1. disk'.trades \in {disk.trades, writer.snap.trades}
    BY DEF FileGoes
  <1>2. TradesInv'
    BY <1>1, TradesStand DEF RingInv
  <1>3. MemoryInv'
    BY MemoryStands
  <1>4. OrdersInv' /\ CoolInv' /\ CooldownHolds'
    BY OrdersStand
  <1> QED BY <1>2, <1>3, <1>4 DEF RingInv

(* The trades of the account that Gail did not know. *)
LEMMA ImportKeepsRing ==
  ASSUME TypeOK, TypeOK', RingInv, Import
  PROVE  RingInv'
  <1> DEFINE new == {i \in DOMAIN orders : orders[i].status = "accepted"
                                            /\ i \notin {t.id : t \in mem.trades}}
             row(i) == [id |-> i, key |-> orders[i].key, ts |-> orders[i].at]
             rows == {row(i) : i \in new}
  <1>1. /\ UNCHANGED <<clock, disk, writer, orders>> /\ op.pc = "idle" /\ op'.pc = "ending"
        /\ mem' = [mem EXCEPT !.trades = mem.trades \cup rows]
    BY BuiltTypes DEF Import
  <1>2. mem \in Ledger
    BY DEF TypeOK
  <1>3. mem'.trades = mem.trades \cup rows /\ mem'.lease = mem.lease
    BY <1>1, <1>2 DEF Ledger
  <1>4. OwnerGoes /\ MemoryGoes /\ FileGoes /\ SnapshotGoes /\ op'.pc \notin Claimed /\ clock <= clock'
    BY <1>1, <1>3, Numbers DEF OwnerGoes, MemoryGoes, FileGoes, SnapshotGoes, Claimed
  <1>5. MemoryInv' /\ OrdersInv' /\ CoolInv' /\ CooldownHolds'
    BY <1>1, <1>4, MemoryStands, OrdersStand
  <1>6. \A t \in mem.trades \cup disk.trades \cup writer.snap.trades : RowOK(t)'
    BY <1>1, <1>4, RowStands, Numbers DEF RingInv, TradesInv, RowsOK
  <1>7. ASSUME NEW i \in new, NEW t, t = row(i) PROVE RowOK(t)'
    <2>1. i \in DOMAIN orders /\ orders[i].status = "accepted" /\ orders[i].at \in Nat
      BY Numbers
    <2>2. t.id = i /\ t.key = orders[i].key /\ t.ts = orders[i].at
      BY <1>7
    <2> QED BY <1>1, <2>1, <2>2 DEF RowOK, RingInv, OrdersInv, Claimed
  <1>8. OneRowEach(mem'.trades)
    <2>1. OneRowEach(mem.trades)
      BY DEF RingInv, TradesInv, RowsOK
    <2>2. \A i \in new : row(i).id = i /\ \A t \in mem.trades : t.id # i
      OBVIOUS
    <2> QED BY <1>3, <2>1, <2>2 DEF OneRowEach
  <1>9. TradesInv'
    <2>1. RowsOK(mem.trades)'
      <3>1. ASSUME NEW t \in mem'.trades PROVE RowOK(t)'
        <4>1. CASE t \in mem.trades
          BY <1>6, <4>1
        <4>2. CASE t \notin mem.trades
          <5>1. PICK i \in new : t = row(i)
            BY <1>3, <4>2
          <5> QED BY <1>7, <5>1
        <4> QED BY <4>1, <4>2
      <3>2. OneRowEach(mem.trades)'
        BY <1>8 DEF OneRowEach
      <3> QED BY <3>1, <3>2 DEF RowsOK
    <2>2. RowsOK(disk.trades)' /\ RowsOK(writer.snap.trades)'
      BY <1>1, <1>6 DEF RingInv, TradesInv, RowsOK, OneRowEach
    <2> QED BY <2>1, <2>2 DEF TradesInv
  <1> QED BY <1>5, <1>9 DEF RingInv

(* The rows that are newer than an order's are other orders that were filled
   since it was claimed. *)
LEMMA NewerRows ==
  ASSUME TypeOK, RingInv, NEW t \in mem.trades
  PROVE  LET N == {u \in mem.trades : u.ts > t.ts \/ (u.ts = t.ts /\ u.id > t.id)}
         IN  Cardinality(N) \in Nat /\ Cardinality(N) <= Cardinality(Since(t.id))
  <1> DEFINE N == {u \in mem.trades : u.ts > t.ts \/ (u.ts = t.ts /\ u.id > t.id)}
             f == [u \in N |-> u.id]
  <1>1. /\ OneRowEach(mem.trades) /\ \A u \in mem.trades : RowOK(u)
        /\ \A u \in mem.trades : u.ts \in Nat /\ u.id \in Nat
    BY Numbers DEF RingInv, TradesInv, RowsOK, Trade
  <1>2. ASSUME NEW u \in N PROVE u.id \in Since(t.id)
    <2>1. RowOK(u) /\ RowOK(t) /\ u.ts \in Nat /\ t.ts \in Nat /\ u.id \in Nat /\ t.id \in Nat
      BY <1>1
    <2>2. u.id # t.id
      BY <1>1, <2>1 DEF OneRowEach
    <2>3. /\ u.id \in DOMAIN orders /\ t.id \in DOMAIN orders
          /\ orders[u.id].status = "accepted" /\ orders[t.id].status = "accepted"
          /\ orders[u.id].at \in Nat /\ orders[t.id].at \in Nat
          /\ orders[u.id].claimed \in Nat /\ orders[t.id].claimed \in Nat
      BY <2>1, Numbers DEF RowOK
    <2>4. /\ orders[t.id].claimed <= orders[t.id].at /\ orders[t.id].at <= t.ts
          /\ orders[u.id].claimed <= orders[u.id].at /\ orders[u.id].at <= u.ts
      BY <2>1, <2>3 DEF RowOK, RingInv, OrdersInv
    <2>5. CASE orders[u.id].at = u.ts
      BY <2>1, <2>2, <2>3, <2>4, <2>5 DEF Since
    <2>6. CASE orders[u.id].at < u.ts /\ t.id > u.id
      <3>1. u.ts <= orders[t.id].claimed
        BY <2>1, <2>3, <2>6 DEF RowOK
      <3> QED BY <2>1, <2>3, <2>4, <2>6, <3>1
    <2>7. CASE u.id > t.id
      <3>1. orders[t.id].claimed <= orders[u.id].claimed
        BY <2>3, <2>7, <2>1 DEF RingInv, OrdersInv
      <3> QED BY <2>2, <2>3, <2>4, <3>1 DEF Since
    <2> QED BY <2>1, <2>2, <2>3, <2>4, <2>5, <2>6, <2>7
  <1>3. f \in Injection(N, Since(t.id))
    <2>1. f \in [N -> Since(t.id)]
      BY <1>2
    <2>2. \A u, v \in N : f[u] = f[v] => u = v
      BY <1>1 DEF OneRowEach
    <2> QED BY <2>1, <2>2 DEF Injection, IsInjective
  <1>4. IsFiniteSet(Since(t.id))
    BY SomeOrders DEF Since
  <1>5. IsFiniteSet(N) /\ Cardinality(N) <= Cardinality(Since(t.id))
    BY <1>3, <1>4, FS_Injection
  <1>6. Cardinality(N) \in Nat
    BY <1>5, FS_CardinalityType
  <1> QED BY <1>5, <1>6

(* A claim of Gail's own accord keeps its distance from every earlier order. *)
LEMMA ClaimIsCool ==
  ASSUME IInv, RingInv, MayClaim(op.key, FALSE), op.key \in Key,
         NEW i \in DOMAIN orders, Gail(orders[i]), orders[i].status # "rejected",
         orders[i].key = op.key
  PROVE  clock >= orders[i].claimed + Least \/ Crowded(i)
  <1>0. TypeOK
    BY DEF IInv
  <1> USE <1>0, Numbers
  <1> DEFINE until == orders[i].claimed + Lease
  <1>1. mem.lease[op.key] <= clock /\ mem.lease[op.key] \in Nat /\ until \in Nat
    BY DEF MayClaim
  <1>2. CASE ~orders[i].known
    <2>1. Open(orders[i])
      BY <1>2 DEF Open
    <2>2. clock < until => mem.lease[orders[i].key] >= until
      BY <2>1 DEF IInv, OpenLeased, Everywhere, Leases
    <2>3. clock >= until
      BY <1>1, <2>2, SMTT(30)
    <2> QED BY <2>3
  <1>3. CASE orders[i].known
    <2>1. Names(mem, i) \/ clock >= until
      BY <1>1, <1>3, SMTT(30) DEF RingInv, MemoryInv, Remembers, Knows, Filled
    <2>2. CASE Names(mem, i)
      <3>1. PICK t \in mem.trades : t.id = i
        BY <2>2 DEF Names
      <3>2. RowOK(t) /\ t.ts \in Nat
        BY DEF RingInv, TradesInv, RowsOK, Trade
      <3>3. t.key = op.key /\ orders[i].at <= t.ts /\ orders[i].claimed <= orders[i].at
        BY <3>1, <3>2 DEF RowOK, RingInv, OrdersInv
      <3>4. CASE t \in Recent(mem.trades)
        <4>1. clock - t.ts >= Cooldown
          BY <3>3, <3>4 DEF MayClaim
        <4> QED BY <3>2, <3>3, <4>1
      <3>5. CASE t \notin Recent(mem.trades)
        <4> DEFINE N == {u \in mem.trades : u.ts > t.ts \/ (u.ts = t.ts /\ u.id > t.id)}
        <4>1. ~(Cardinality(N) < RingSize)
          BY <3>5 DEF Recent
        <4>2. Cardinality(N) \in Nat /\ Cardinality(N) <= Cardinality(Since(i))
          BY <3>1, NewerRows
        <4>3. Cardinality(Since(i)) \in Nat
          BY SomeOrders DEF Since
        <4> HIDE DEF N
        <4> QED BY <4>1, <4>2, <4>3 DEF Crowded
      <3> QED BY <3>4, <3>5
    <2>3. CASE clock >= until
      BY <2>3
    <2> QED BY <2>1, <2>2, <2>3
  <1> QED BY <1>2, <1>3

(* The order that the owner submits is the last, and keeps its distance. *)
LEMMA ClaimKeepsRing ==
  ASSUME IInv, TypeOK', RingInv, Claim
  PROVE  RingInv'
  <1>0. TypeOK /\ op \in Owner /\ mem \in Ledger
    BY DEF IInv, TypeOK
  <1>1. /\ UNCHANGED <<clock, disk, writer, orders>> /\ op.pc = "ready" /\ MayClaim(op.key, op.manual)
        /\ op'.pc = "lease" /\ op'.key = op.key /\ op'.claimed = clock /\ op'.manual = op.manual
        /\ op.key \in Key
    BY <1>0 DEF Claim, At, Owner, PC, TypeOK
  <1>2. /\ mem'.trades = mem.trades
        /\ mem'.lease = [Unexpired EXCEPT ![op.key] = clock + Lease]
    BY <1>0 DEF Claim, Ledger
  <1>3. MemoryGoes /\ FileGoes /\ SnapshotGoes
    <2>1. mem.lease[op.key] <= clock
      BY <1>1 DEF MayClaim
    <2>2. \A k \in Key : mem.lease[k] \in Nat /\ clock \in Nat
      BY <1>0, Numbers
    <2>3. \A k \in Key : mem'.lease[k] = mem.lease[k] \/ mem.lease[k] <= clock'
      BY <1>1, <1>2, <2>1, <2>2 DEF Unexpired
    <2> QED BY <1>1, <1>2, <2>3 DEF MemoryGoes, FileGoes, SnapshotGoes
  <1>4. clock \in Nat /\ clock' \in Nat /\ clock <= clock'
    BY <1>0, <1>1, Numbers
  <1>5. OrdersInv'
    BY <1>1 DEF RingInv, OrdersInv, Filled, Gail
  <1>6. TradesInv'
    <2>1. \A t \in mem.trades \cup disk.trades \cup writer.snap.trades : RowOK(t)'
      BY <1>1 DEF RingInv, TradesInv, RowsOK, RowOK
    <2> QED BY <1>1, <1>2, <2>1 DEF RingInv, TradesInv, RowsOK, OneRowEach
  <1>7. MemoryInv'
    <2>1. \A i \in DOMAIN orders : Filled(orders[i]) =>
            /\ Remembers(mem, i)' /\ Remembers(disk, i)'
            /\ writer'.who # "none" => Remembers(writer.snap, i)'
      BY <1>0, <1>1, <1>3, <1>4, LedgersKnow DEF Remembers
    <2>2. ASSUME NEW i \in DOMAIN orders, Filled(orders[i]), orders[i].key = op.key
          PROVE  Names(mem, i) \/ clock >= orders[i].claimed + Lease
      <3>1. Names(mem, i) \/ mem.lease[op.key] >= orders[i].claimed + Lease
              \/ clock >= orders[i].claimed + Lease
        BY <2>2 DEF RingInv, MemoryInv, Remembers, Knows
      <3>2. mem.lease[op.key] <= clock /\ mem.lease[op.key] \in Nat /\ orders[i].claimed + Lease \in Nat
        BY <1>0, <1>1, Numbers DEF MayClaim
      <3> QED BY <1>4, <3>1, <3>2
    <2> QED BY <1>1, <1>2, <2>1, <2>2 DEF MemoryInv, Filled, Gail, Names
  <1>8. CoolInv'
    <2> SUFFICES ASSUME ~op.manual, NEW i \in DOMAIN orders, Gail(orders[i]),
                        orders[i].status # "rejected", orders[i].key = op.key
                 PROVE  clock >= orders[i].claimed + Least \/ Crowded(i)
      BY <1>1 DEF CoolInv, Crowded, Since, Gail
    <2>1. MayClaim(op.key, FALSE)
      BY <1>1 DEF MayClaim
    <2> QED BY <1>1, <2>1, ClaimIsCool
  <1>9. CooldownHolds'
    BY <1>1 DEF RingInv, CooldownHolds, Gail
  <1> QED BY <1>5, <1>6, <1>7, <1>8, <1>9 DEF RingInv

(* An order that was sent: it is pending, and crowds nobody out. *)
LEMMA PostKeepsRing ==
  ASSUME IInv, TypeOK', RingInv, Post
  PROVE  RingInv'
  <1> DEFINE o == [key |-> op.key, claimed |-> op.claimed,
                   by |-> IF op.manual THEN "manual" ELSE "auto",
                   status |-> "pending", at |-> 0, known |-> FALSE]
             n == Len(orders) + 1
  <1>0. TypeOK /\ op \in Owner /\ op.claimed <= clock
    BY DEF IInv, TypeOK, OwnLease, Post
  <1>1. /\ UNCHANGED <<clock, mem, disk, writer>> /\ op.pc = "post"
        /\ op'.pc = "posted" /\ op'.key = op.key /\ op'.claimed = op.claimed /\ op'.order = n
        /\ op'.manual = op.manual
    BY <1>0 DEF Post, At, Owner, store, PC
  <1>2. /\ DOMAIN orders' = DOMAIN orders \cup {n} /\ n \notin DOMAIN orders /\ Len(orders') = n
        /\ orders'[n] = o /\ \A i \in DOMAIN orders : orders'[i] = orders[i] /\ i < n
    BY <1>0 DEF Post, TypeOK
  <1>3. /\ o.key = op.key /\ o.claimed = op.claimed /\ o.status = "pending" /\ o.at = 0 /\ ~o.known
        /\ Gail(o) /\ (o.by = "auto" => ~op.manual)
    BY DEF Gail
  <1>4. n \in Nat /\ clock \in Nat /\ op.claimed \in Nat
    BY <1>0, Numbers
  <1> HIDE DEF o, n
  <1>5. OrdersInv'
    <2>1. \A i \in DOMAIN orders' :
            /\ orders'[i].claimed <= clock' /\ orders'[i].at <= clock'
            /\ orders'[i].status = "accepted" => orders'[i].at >= orders'[i].claimed
            /\ Filled(orders'[i]) => orders'[i].status = "accepted"
      BY <1>0, <1>1, <1>2, <1>3, <1>4 DEF RingInv, OrdersInv, Filled
    <2>2. \A i \in DOMAIN orders' : orders'[i].claimed <= op.claimed
      BY <1>1, <1>2, <1>3, <1>4 DEF RingInv, OrdersInv, Claimed
    <2>3. \A i, j \in DOMAIN orders' : i < j => orders'[i].claimed <= orders'[j].claimed
      <3> SUFFICES ASSUME NEW i \in DOMAIN orders', NEW j \in DOMAIN orders', i < j
                   PROVE  orders'[i].claimed <= orders'[j].claimed
        OBVIOUS
      <3>1. CASE j = n
        BY <1>2, <1>3, <2>2, <3>1
      <3>2. CASE j # n
        <4>1. j \in DOMAIN orders /\ i \in DOMAIN orders
          BY <1>0, <1>2, <1>4, <3>2, Numbers
        <4> QED BY <1>2, <4>1 DEF RingInv, OrdersInv
      <3> QED BY <3>1, <3>2
    <2>4. op'.order = Len(orders') /\ orders'[op'.order].claimed = op'.claimed
          /\ orders'[op'.order].key = op'.key /\ Gail(orders'[op'.order])
      BY <1>1, <1>2, <1>3
    <2> QED BY <1>1, <2>1, <2>2, <2>3, <2>4 DEF OrdersInv, Filled, Gail
  <1>6. TradesInv'
    <2>1. ASSUME NEW t \in mem.trades \cup disk.trades \cup writer.snap.trades PROVE RowOK(t)'
      <3>1. RowOK(t)
        BY DEF RingInv, TradesInv, RowsOK
      <3>2. t.id \in DOMAIN orders /\ t.id # n /\ t.ts <= op.claimed
        BY <1>1, <1>2, <3>1 DEF RowOK, Claimed
      <3>3. \A j \in DOMAIN orders' : j \in DOMAIN orders \/ orders'[j].claimed = op.claimed
        BY <1>2, <1>3
      <3> QED BY <1>1, <1>2, <3>1, <3>2, <3>3 DEF RowOK
    <2> QED BY <1>1, <2>1 DEF RingInv, TradesInv, RowsOK, OneRowEach
  <1>7. MemoryInv'
    <2>1. \A i \in DOMAIN orders' : Filled(orders'[i]) => i \in DOMAIN orders /\ orders'[i] = orders[i]
      BY <1>2, <1>3 DEF Filled
    <2>2. op.pc \in Claimed
      BY <1>1 DEF Claimed
    <2> QED BY <1>1, <2>1, <2>2 DEF RingInv, MemoryInv, Remembers, Knows, Names, Filled, Gail
  <1>8. \A i, j : {m \in DOMAIN orders' \ {i, j} : /\ orders'[m].status = "accepted"
                                                  /\ orders'[m].at >= orders'[i].claimed}
                  = {m \in DOMAIN orders \ {i, j} : /\ orders[m].status = "accepted"
                                                  /\ orders[m].at >= orders'[i].claimed}
    BY <1>2, <1>3
  <1>9. \A i \in DOMAIN orders : Since(i)' = Since(i) /\ orders'[i] = orders[i]
    BY <1>2, <1>3 DEF Since
  <1>10. CoolInv'
    BY <1>1, <1>2, <1>9 DEF RingInv, CoolInv, Crowded, Claimed, Gail
  <1>11. CooldownHolds'
    <2> SUFFICES ASSUME NEW i \in DOMAIN orders', NEW j \in DOMAIN orders', i < j,
                        orders'[i].key = orders'[j].key, Gail(orders'[i]), orders'[j].by = "auto",
                        orders'[i].status # "rejected"
                 PROVE  \/ orders'[j].claimed >= orders'[i].claimed + Least
                        \/ Cardinality({m \in DOMAIN orders' \ {i, j} :
                              /\ orders'[m].status = "accepted"
                              /\ orders'[m].at >= orders'[i].claimed}) >= RingSize
      BY DEF CooldownHolds, Gail, Least
    <2>1. i \in DOMAIN orders /\ orders'[i] = orders[i]
      BY <1>0, <1>2, <1>4, Numbers
    <2>2. CASE j = n
      <3>1. ~op.manual /\ orders[i].key = op.key /\ orders'[j].claimed = op.claimed
        BY <1>2, <1>3, <2>2
      <3>2. op.claimed >= orders[i].claimed + Least \/ Crowded(i)
        BY <1>1, <2>1, <3>1 DEF RingInv, CoolInv, Claimed
      <3>3. {m \in DOMAIN orders \ {i, j} : /\ orders[m].status = "accepted"
                                           /\ orders[m].at >= orders'[i].claimed} = Since(i)
        BY <1>2, <2>1, <2>2 DEF Since
      <3> QED BY <1>8, <2>1, <3>1, <3>2, <3>3 DEF Crowded
    <2>3. CASE j # n
      <3>1. j \in DOMAIN orders /\ orders'[j] = orders[j]
        BY <1>2, <2>3
      <3>2. \/ orders[j].claimed >= orders[i].claimed + Least
            \/ Cardinality({m \in DOMAIN orders \ {i, j} :
                  /\ orders[m].status = "accepted" /\ orders[m].at >= orders[i].claimed}) >= RingSize
        BY <2>1, <3>1 DEF RingInv, CooldownHolds, Least
      <3>3. {m \in DOMAIN orders' \ {i, j} : /\ orders'[m].status = "accepted"
                                            /\ orders'[m].at >= orders'[i].claimed}
              = {m \in DOMAIN orders \ {i, j} : /\ orders[m].status = "accepted"
                                              /\ orders[m].at >= orders[i].claimed}
        BY <1>8, <2>1
      <3> QED BY <2>1, <3>1, <3>2, <3>3
    <2> QED BY <2>2, <2>3
  <1> QED BY <1>5, <1>6, <1>7, <1>10, <1>11 DEF RingInv

(* What OctoBot does with an order only adds to those that were filled since. *)
LEMMA SettleKeepsRing ==
  ASSUME IInv, TypeOK', RingInv, NEW e \in DOMAIN orders, NEW s \in {"accepted", "rejected"},
         Settle(e, s)
  PROVE  RingInv'
  <1>0. TypeOK
    BY DEF IInv
  <1>1. UNCHANGED <<clock, mem, disk, writer, op>> /\ orders[e].status = "pending"
    BY DEF Settle, store
  <1>2. /\ DOMAIN orders' = DOMAIN orders /\ Len(orders') = Len(orders)
        /\ \A i \in DOMAIN orders :
             /\ i # e => orders'[i] = orders[i]
             /\ orders'[i].key = orders[i].key /\ orders'[i].claimed = orders[i].claimed
             /\ orders'[i].by = orders[i].by /\ orders'[i].known = orders[i].known
             /\ i = e => /\ orders'[i].status = s
                         /\ orders'[i].at = IF s = "accepted" THEN clock ELSE 0
    <2>1. \A i \in DOMAIN orders : orders[i] \in Order
      BY <1>0 DEF TypeOK
    <2>2. orders' = [orders EXCEPT ![e] = [orders[e] EXCEPT !.status = s,
                       !.at = IF s = "accepted" THEN clock ELSE 0]]
      BY DEF Settle
    <2>3. LET o == [orders[e] EXCEPT !.status = s, !.at = IF s = "accepted" THEN clock ELSE 0]
          IN  /\ o.key = orders[e].key /\ o.claimed = orders[e].claimed /\ o.by = orders[e].by
              /\ o.known = orders[e].known /\ o.status = s
              /\ o.at = IF s = "accepted" THEN clock ELSE 0
      BY <2>1 DEF Order
    <2>4. DOMAIN orders' = DOMAIN orders /\ Len(orders') = Len(orders)
      BY <1>0, <2>2 DEF TypeOK
    <2> QED BY <2>2, <2>3, <2>4
  <1>3. clock \in Nat /\ \A i \in DOMAIN orders : /\ orders[i].claimed \in Nat /\ orders[i].at \in Nat
    BY <1>0, Numbers
  <1>4. ~Filled(orders[e]) /\ ~Filled(orders'[e])
    BY <1>1, <1>2 DEF RingInv, OrdersInv, Filled, Gail
  <1>5. OrdersInv'
    <2>1. \A i \in DOMAIN orders' :
            /\ orders'[i].claimed <= clock' /\ orders'[i].at <= clock'
            /\ orders'[i].status = "accepted" => orders'[i].at >= orders'[i].claimed
            /\ Filled(orders'[i]) => orders'[i].status = "accepted"
      BY <1>1, <1>2, <1>3, <1>4 DEF RingInv, OrdersInv
    <2>2. \A i, j \in DOMAIN orders' : i < j => orders'[i].claimed <= orders'[j].claimed
      BY <1>2 DEF RingInv, OrdersInv
    <2>3. op'.pc \in Claimed => \A i \in DOMAIN orders' : orders'[i].claimed <= op'.claimed
      BY <1>1, <1>2 DEF RingInv, OrdersInv
    <2>4. op'.pc = "posted" => /\ op'.order = Len(orders') /\ orders'[op'.order].claimed = op'.claimed
                               /\ orders'[op'.order].key = op'.key /\ Gail(orders'[op'.order])
      BY <1>0, <1>1, <1>2 DEF RingInv, OrdersInv, TypeOK, Gail
    <2> QED BY <2>1, <2>2, <2>3, <2>4 DEF OrdersInv, Filled, Gail
  <1>6. TradesInv'
    <2>1. ASSUME NEW t \in mem.trades \cup disk.trades \cup writer.snap.trades PROVE RowOK(t)'
      <3>1. RowOK(t)
        BY DEF RingInv, TradesInv, RowsOK
      <3>2. t.id # e /\ t.id \in DOMAIN orders
        BY <1>1, <3>1 DEF RowOK
      <3> QED BY <1>1, <1>2, <3>1, <3>2 DEF RowOK
    <2> QED BY <1>1, <2>1 DEF RingInv, TradesInv, RowsOK, OneRowEach
  <1>7. MemoryInv'
    <2>1. \A i \in DOMAIN orders : Filled(orders'[i]) => Filled(orders[i]) /\ orders'[i] = orders[i]
      BY <1>2, <1>4
    <2> QED BY <1>1, <1>2, <2>1 DEF RingInv, MemoryInv, Remembers, Knows, Names, Filled, Gail
  <1>8. ASSUME NEW i \in DOMAIN orders, NEW j
        PROVE  LET before == {m \in DOMAIN orders \ {i, j} : /\ orders[m].status = "accepted"
                                                            /\ orders[m].at >= orders[i].claimed}
                   after == {m \in DOMAIN orders' \ {i, j} : /\ orders'[m].status = "accepted"
                                                            /\ orders'[m].at >= orders'[i].claimed}
               IN  Cardinality(before) >= RingSize => Cardinality(after) >= RingSize
    <2> DEFINE before == {m \in DOMAIN orders \ {i, j} : /\ orders[m].status = "accepted"
                                                        /\ orders[m].at >= orders[i].claimed}
               after == {m \in DOMAIN orders' \ {i, j} : /\ orders'[m].status = "accepted"
                                                        /\ orders'[m].at >= orders'[i].claimed}
    <2>1. before \subseteq after /\ after \subseteq DOMAIN orders
      BY <1>1, <1>2
    <2> HIDE DEF before, after
    <2>2. IsFiniteSet(after) /\ Cardinality(after) \in Nat /\ Cardinality(before) \in Nat
      BY <1>0, <2>1, SomeOrders
    <2>3. Cardinality(before) <= Cardinality(after)
      BY <2>1, <2>2, FS_Subset
    <2>4. RingSize \in Nat
      BY <1>0, Numbers
    <2> QED BY <2>2, <2>3, <2>4 DEF before, after
  <1>9. \A i \in DOMAIN orders : Crowded(i) => Crowded(i)'
    <2> SUFFICES ASSUME NEW i \in DOMAIN orders, Crowded(i) PROVE Crowded(i)'
      OBVIOUS
    <2>1. {i, i} = {i}
      OBVIOUS
    <2> QED BY <1>8, <2>1 DEF Crowded, Since
  <1>10. \A i \in DOMAIN orders : orders'[i].status # "rejected" => orders[i].status # "rejected"
    BY <1>1, <1>2
  <1>11. CoolInv'
    BY <1>1, <1>2, <1>9, <1>10 DEF RingInv, CoolInv, Gail
  <1>12. CooldownHolds'
    <2> SUFFICES ASSUME NEW i \in DOMAIN orders, NEW j \in DOMAIN orders, i < j,
                        orders'[i].key = orders'[j].key, Gail(orders'[i]), orders'[j].by = "auto",
                        orders'[i].status # "rejected"
                 PROVE  \/ orders'[j].claimed >= orders'[i].claimed + Least
                        \/ Cardinality({m \in DOMAIN orders' \ {i, j} :
                              /\ orders'[m].status = "accepted"
                              /\ orders'[m].at >= orders'[i].claimed}) >= RingSize
      BY <1>2 DEF CooldownHolds, Gail, Least
    <2>1. \/ orders[j].claimed >= orders[i].claimed + Least
          \/ Cardinality({m \in DOMAIN orders \ {i, j} :
                /\ orders[m].status = "accepted" /\ orders[m].at >= orders[i].claimed}) >= RingSize
      BY <1>2, <1>10 DEF RingInv, CooldownHolds, Gail, Least
    <2> QED BY <1>2, <1>8, <2>1
  <1> QED BY <1>5, <1>6, <1>7, <1>11, <1>12 DEF RingInv

(* The fill that was acknowledged is a row of memory, and its lease is still in
   the file and in a snapshot on its way there. *)
LEMMA FilledKeepsRing ==
  ASSUME IInv, TypeOK', RingInv, OrderFilled, NEW e, e = op.order,
         NEW new, new = [id |-> e, key |-> op.key, ts |-> clock]
  PROVE  RingInv'
  <1>0. TypeOK /\ op \in Owner /\ mem \in Ledger /\ op.pc = "posted" /\ op.key \in Key
    BY DEF IInv, TypeOK, OrderFilled
  <1>1. /\ UNCHANGED <<clock, disk, writer>> /\ op'.pc = "ending" /\ op'.pc \notin Claimed
        /\ orders[e].status = "accepted" /\ e \in DOMAIN orders /\ e = Len(orders)
        /\ orders[e].claimed = op.claimed /\ orders[e].key = op.key
    BY <1>0, BuiltTypes DEF OrderFilled, Claimed, RingInv, OrdersInv, TypeOK
  <1>2. /\ mem'.trades = mem.trades \cup {new}
        /\ \A k \in Key : k # op.key => mem'.lease[k] = mem.lease[k]
    <2>1. mem' = [mem EXCEPT !.lease[op.key] = 0, !.trades = @ \cup {new}]
      BY DEF OrderFilled
    <2> QED BY <1>0, <2>1 DEF Ledger
  <1>3. /\ DOMAIN orders' = DOMAIN orders
        /\ \A i \in DOMAIN orders :
             /\ i # e => orders'[i] = orders[i]
             /\ orders'[i].key = orders[i].key /\ orders'[i].claimed = orders[i].claimed
             /\ orders'[i].by = orders[i].by /\ orders'[i].status = orders[i].status
             /\ orders'[i].at = orders[i].at
    <2>1. \A i \in DOMAIN orders : orders[i] \in Order
      BY <1>0 DEF TypeOK
    <2>2. orders' = [orders EXCEPT ![e] = [orders[e] EXCEPT !.known = TRUE]]
      BY DEF OrderFilled
    <2>3. LET o == [orders[e] EXCEPT !.known = TRUE]
          IN  /\ o.key = orders[e].key /\ o.claimed = orders[e].claimed /\ o.by = orders[e].by
              /\ o.status = orders[e].status /\ o.at = orders[e].at
      BY <1>1, <2>1 DEF Order
    <2> QED BY <1>1, <2>2, <2>3
  <1>4. /\ clock \in Nat /\ e \in Nat /\ DOMAIN orders = 1 .. e
        /\ \A i \in DOMAIN orders : orders[i].claimed \in Nat /\ orders[i].at \in Nat /\ i \in Nat
    BY <1>0, <1>1, Numbers
  <1>5. OrdersInv'
    <2>1. \A i \in DOMAIN orders' :
            /\ orders'[i].claimed <= clock' /\ orders'[i].at <= clock'
            /\ orders'[i].status = "accepted" => orders'[i].at >= orders'[i].claimed
            /\ Filled(orders'[i]) => orders'[i].status = "accepted"
      BY <1>1, <1>3 DEF RingInv, OrdersInv
    <2>2. \A i, j \in DOMAIN orders' : i < j => orders'[i].claimed <= orders'[j].claimed
      BY <1>3 DEF RingInv, OrdersInv
    <2> QED BY <1>1, <2>1, <2>2 DEF OrdersInv, Filled, Gail
  <1>6. TradesInv'
    <2>1. ASSUME NEW t \in mem.trades \cup disk.trades \cup writer.snap.trades PROVE RowOK(t)' /\ t.id # e
      <3>1. RowOK(t)
        BY DEF RingInv, TradesInv, RowsOK
      <3>2. t.id # e /\ t.id \in DOMAIN orders
        BY <1>0, <3>1 DEF RowOK
      <3> QED BY <1>1, <1>3, <3>1, <3>2 DEF RowOK
    <2>2. RowOK(new)'
      <3>1. new.id = e /\ new.key = op.key /\ new.ts = clock
        OBVIOUS
      <3>2. orders[e].at <= clock
        BY <1>1 DEF RingInv, OrdersInv
      <3>3. \A j \in DOMAIN orders : ~(e < j)
        BY <1>4
      <3> QED BY <1>1, <1>3, <1>4, <3>1, <3>2, <3>3 DEF RowOK
    <2>3. OneRowEach(mem'.trades)
      <3>1. new.id = e
        OBVIOUS
      <3> QED BY <1>2, <2>1, <3>1 DEF RingInv, TradesInv, RowsOK, OneRowEach
    <2>4. RowsOK(mem.trades)'
      <3>1. \A t \in mem'.trades : RowOK(t)'
        BY <1>2, <2>1, <2>2
      <3>2. OneRowEach(mem.trades)'
        BY <2>3 DEF OneRowEach
      <3> QED BY <3>1, <3>2 DEF RowsOK
    <2>5. RowsOK(disk.trades)' /\ RowsOK(writer.snap.trades)'
      BY <1>1, <2>1 DEF RingInv, TradesInv, RowsOK, OneRowEach
    <2> QED BY <2>4, <2>5 DEF TradesInv
  <1>7. MemoryInv'
    <2>1. Names(mem', e)
      <3>1. new \in mem'.trades /\ new.id = e
        BY <1>2
      <3> QED BY <3>1 DEF Names
    <2>2. Leases(disk, op.key, op.claimed + Lease)
          /\ (writer.who # "none" => Leases(writer.snap, op.key, op.claimed + Lease))
      BY <1>0 DEF IInv, OwnLease, Everywhere
    <2>3. Remembers(mem, e)' /\ Remembers(disk, e)' /\ (writer'.who # "none" => Remembers(writer.snap, e)')
      BY <1>1, <1>3, <2>1, <2>2 DEF Remembers, Knows, Leases, Names
    <2>4. ASSUME NEW i \in DOMAIN orders, i # e, Filled(orders[i])
          PROVE  Remembers(mem, i)' /\ Remembers(disk, i)' /\ (writer'.who # "none" => Remembers(writer.snap, i)')
      <3>1. MemoryGoes /\ FileGoes /\ SnapshotGoes /\ clock <= clock' /\ clock' \in Nat
        BY <1>0, <1>1, <1>2, <1>4 DEF MemoryGoes, FileGoes, SnapshotGoes, Claimed
      <3> QED BY <1>0, <1>3, <2>4, <3>1, LedgersKnow DEF Remembers
    <2> QED BY <1>1, <1>3, <2>3, <2>4 DEF MemoryInv, Filled, Gail
  <1>8. CoolInv'
    BY <1>1 DEF CoolInv
  <1>9. CooldownHolds'
    <2>1. \A i, j \in DOMAIN orders :
             {m \in DOMAIN orders' \ {i, j} : /\ orders'[m].status = "accepted"
                                             /\ orders'[m].at >= orders'[i].claimed}
               = {m \in DOMAIN orders \ {i, j} : /\ orders[m].status = "accepted"
                                               /\ orders[m].at >= orders[i].claimed}
      BY <1>3
    <2> QED BY <1>3, <2>1 DEF RingInv, CooldownHolds, Gail
  <1> QED BY <1>5, <1>6, <1>7, <1>8, <1>9 DEF RingInv

(* The ledgers an action leaves alone go on. *)
LEMMA StoreStands ==
  ASSUME UNCHANGED <<mem, disk, writer>>
  PROVE  MemoryGoes /\ FileGoes /\ SnapshotGoes
  BY DEF MemoryGoes, FileGoes, SnapshotGoes

LEMMA InitRing == Init => RingInv
  <1> SUFFICES ASSUME Init PROVE RingInv
    OBVIOUS
  <1> USE TradeConstants
  <1>1. orders = <<>> \/ \E k \in Foreign : orders = <<ForeignTrade(k)>>
    BY DEF Init
  <1>2. \A i \in DOMAIN orders : /\ i = 1 /\ ~Gail(orders[i]) /\ orders[i].by # "auto"
                                 /\ orders[i].claimed = 0 /\ orders[i].at = 1
    BY <1>1 DEF ForeignTrade, Gail
  <1>3. clock = 1 /\ op.pc = "idle" /\ mem.trades = {} /\ disk.trades = {} /\ writer.snap.trades = {}
    BY DEF Init, Resting, NoWriter, Empty
  <1>4. OrdersInv
    BY <1>2, <1>3 DEF OrdersInv, Filled, Claimed
  <1>5. TradesInv
    BY <1>3 DEF TradesInv, RowsOK, OneRowEach
  <1>6. MemoryInv /\ CoolInv
    BY <1>2, <1>3 DEF MemoryInv, CoolInv, Filled, Claimed
  <1>7. CooldownHolds
    BY <1>2 DEF CooldownHolds
  <1> QED BY <1>4, <1>5, <1>6, <1>7 DEF RingInv

LEMMA StepRing == IInv /\ RingInv /\ [Next]_vars => RingInv'
  <1> SUFFICES ASSUME IInv, RingInv, [Next]_vars PROVE RingInv'
    OBVIOUS
  <1>0. TypeOK /\ TypeOK' /\ op \in Owner /\ mem \in Ledger /\ clock \in Nat
    BY TypeStep DEF IInv, TypeOK
  <1>a. \A pc \in PC : At(pc).pc = pc /\ At(pc).key = op.key /\ At(pc).claimed = op.claimed
                       /\ At(pc).order = op.order /\ At(pc).manual = op.manual
    BY <1>0 DEF At, Owner
  <1>b. ASSUME UNCHANGED <<clock, store, orders>>, op'.pc \notin Claimed PROVE RingInv'
    <2>1. UNCHANGED <<clock, mem, disk, writer, orders>>
      BY <1>b DEF store
    <2>2. OwnerGoes /\ clock <= clock'
      BY <1>b, <1>0, <2>1 DEF OwnerGoes, Claimed
    <2> QED BY <1>0, <1>b, <2>1, <2>2, StoreStands, RingStands
  <1>1. CASE Wake
    <2>1. CASE BeginEvaluation
      BY <2>1, <1>a, <1>b DEF BeginEvaluation, Claimed, PC
    <2>2. CASE Import
      BY <2>2, <1>0, ImportKeepsRing
    <2>3. ASSUME NEW k \in Key, MaintenancePlan(k) PROVE RingInv'
      <3>1. op'.pc = "ready"
        BY <2>3, <1>0 DEF MaintenancePlan, At, Owner
      <3> QED BY <2>3, <3>1, <1>b DEF MaintenancePlan, Claimed
    <2> QED BY <1>1, <2>1, <2>2, <2>3 DEF Wake
  <1>2. CASE Execution
    <2>1. CASE Decide
      <3>0. ASSUME NEW k PROVE /\ [At("ready") EXCEPT !.key = k].pc = "ready"
                               /\ [At("ready") EXCEPT !.key = k, !.manual = TRUE].pc = "ready"
        BY <1>0 DEF At, Owner
      <3>1. op'.pc \in {"ready", "ending"}
        BY <2>1, <3>0, BuiltTypes DEF Decide
      <3> QED BY <2>1, <3>1, <1>b DEF Decide, Claimed
    <2>2. CASE SkipTrade
      BY <2>2, BuiltTypes, <1>b DEF SkipTrade, Claimed
    <2>3. CASE Claim
      BY <2>3, <1>0, ClaimKeepsRing
    <2>4. CASE ClaimRefused
      <3>1. /\ op'.pc \notin Claimed /\ mem'.trades = mem.trades /\ mem'.lease = Unexpired
            /\ UNCHANGED <<clock, disk, writer, orders>>
        BY <2>4, <1>0, BuiltTypes DEF ClaimRefused, Ledger, Claimed
      <3>2. \A k \in Key : mem'.lease[k] = mem.lease[k] \/ mem.lease[k] <= clock'
        BY <1>0, <3>1, Numbers DEF Unexpired
      <3>3. OwnerGoes /\ MemoryGoes /\ FileGoes /\ SnapshotGoes /\ clock <= clock'
        BY <1>0, <3>1, <3>2 DEF OwnerGoes, MemoryGoes, FileGoes, SnapshotGoes, Claimed
      <3> QED BY <1>0, <3>1, <3>3, RingStands
    <2>5. ASSUME NEW ok \in BOOLEAN, ActivatePair(ok) PROVE RingInv'
      <3>1. /\ UNCHANGED <<clock, disk, writer, orders>> /\ op.pc = "activate" /\ op.pc \in Claimed
            /\ mem'.trades = mem.trades /\ \A k \in Key : k # op.key => mem'.lease[k] = mem.lease[k]
        BY <2>5, <1>0 DEF ActivatePair, Ledger, Claimed, TypeOK
      <3>2. /\ op'.pc \in {"post", "ending"}
            /\ op'.pc = "post" => op'.claimed = op.claimed /\ op'.key = op.key /\ op'.manual = op.manual
        BY <2>5, <1>a, BuiltTypes DEF ActivatePair, PC
      <3>3. OwnerGoes /\ MemoryGoes /\ FileGoes /\ SnapshotGoes /\ clock <= clock'
        BY <1>0, <3>1, <3>2 DEF OwnerGoes, MemoryGoes, FileGoes, SnapshotGoes, Claimed
      <3> QED BY <1>0, <3>1, <3>3, RingStands
    <2>6. CASE Post
      BY <2>6, <1>0, PostKeepsRing
    <2>7. CASE TryAgain
      <3>1. /\ UNCHANGED <<clock, mem, disk, writer, orders>> /\ op.pc = "posted"
            /\ orders[op.order].status = "rejected"
        BY <2>7 DEF TryAgain, Refused, store
      <3>2. op'.pc = "post" /\ op'.key = op.key /\ op'.claimed = op.claimed /\ op'.manual = op.manual
        BY <2>7, <1>0 DEF TryAgain, At, Owner
      <3>3. OwnerGoes /\ clock <= clock'
        BY <1>0, <3>1, <3>2 DEF OwnerGoes, Claimed
      <3> QED BY <1>0, <3>1, <3>3, StoreStands, RingStands
    <2>8. CASE OrderFails
      BY <2>8, BuiltTypes, <1>b DEF OrderFails, Claimed
    <2>9. CASE OrderFilled
      BY <2>9, <1>0, FilledKeepsRing
    <2> QED BY <1>2, <2>1, <2>2, <2>3, <2>4, <2>5, <2>6, <2>7, <2>8, <2>9 DEF Execution
  <1>3. CASE OwnerWrites
    <2>1. CASE OwnerBeginsWrite
      <3>1. UNCHANGED <<clock, mem, disk, op, orders>> /\ writer'.snap = mem
        BY <2>1 DEF OwnerBeginsWrite, BeginWrite
      <3>2. OwnerGoes /\ MemoryGoes /\ FileGoes /\ SnapshotGoes /\ clock <= clock'
        BY <1>0, <3>1 DEF OwnerGoes, MemoryGoes, FileGoes, SnapshotGoes
      <3> QED BY <1>0, <3>1, <3>2, RingStands
    <2>2. ASSUME NEW ok \in BOOLEAN, OwnerEndsWrite(ok) PROVE RingInv'
      <3>1. /\ UNCHANGED <<clock, orders>> /\ writer.who = "owner"
            /\ writer'.who = "none" /\ writer'.snap.trades = {}
            /\ disk' = IF ok THEN writer.snap ELSE disk
        BY <2>2 DEF OwnerEndsWrite, EndWrite, NoWriter, Empty
      <3>2. /\ mem'.trades = mem.trades
            /\ \A k \in Key : mem'.lease[k] = mem.lease[k] \/ (op.pc \in Claimed /\ k = op.key)
        BY <2>2, <1>0 DEF OwnerEndsWrite, Ledger, Claimed, TypeOK
      <3>3. /\ op'.pc \in {"activate", "ending", "idle"}
            /\ op'.pc = "activate" => /\ op.pc = "lease" /\ op'.claimed = op.claimed
                                      /\ op'.key = op.key /\ op'.manual = op.manual
        BY <2>2, <1>a, BuiltTypes DEF OwnerEndsWrite, PC
      <3>4. OwnerGoes /\ MemoryGoes /\ FileGoes /\ SnapshotGoes /\ clock <= clock'
        BY <1>0, <3>1, <3>2, <3>3 DEF OwnerGoes, MemoryGoes, FileGoes, SnapshotGoes, Claimed
      <3> QED BY <1>0, <3>1, <3>2, <3>4, RingStands
    <2> QED BY <1>3, <2>1, <2>2 DEF OwnerWrites
  <1>4. CASE Operator
    <2>1. /\ UNCHANGED <<clock, disk, writer, op, orders>>
          /\ mem'.lease = mem.lease /\ mem'.trades = mem.trades
      BY <1>4, <1>0 DEF Operator, Pause, Resume, SetOverride, Handle, Ledger
    <2>2. OwnerGoes /\ MemoryGoes /\ FileGoes /\ SnapshotGoes /\ clock <= clock'
      BY <1>0, <2>1 DEF OwnerGoes, MemoryGoes, FileGoes, SnapshotGoes
    <2> QED BY <1>0, <2>1, <2>2, RingStands
  <1>5. CASE WorkerBeginsWrite
    <2>1. UNCHANGED <<clock, mem, disk, op, orders>> /\ writer'.snap = mem
      BY <1>5 DEF WorkerBeginsWrite, BeginWrite
    <2>2. OwnerGoes /\ MemoryGoes /\ FileGoes /\ SnapshotGoes /\ clock <= clock'
      BY <1>0, <2>1 DEF OwnerGoes, MemoryGoes, FileGoes, SnapshotGoes
    <2> QED BY <1>0, <2>1, <2>2, RingStands
  <1>6. CASE ApiWrites
    <2>1. CASE ApiBeginsWrite
      <3>1. UNCHANGED <<clock, mem, disk, op, orders>> /\ writer'.snap = mem
        BY <2>1 DEF ApiBeginsWrite, BeginWrite
      <3>2. OwnerGoes /\ MemoryGoes /\ FileGoes /\ SnapshotGoes /\ clock <= clock'
        BY <1>0, <3>1 DEF OwnerGoes, MemoryGoes, FileGoes, SnapshotGoes
      <3> QED BY <1>0, <3>1, <3>2, RingStands
    <2>2. ASSUME NEW ok \in BOOLEAN, ApiEndsWrite(ok) PROVE RingInv'
      <3>1. /\ UNCHANGED <<clock, mem, op, orders>> /\ writer.who = "api"
            /\ writer'.who = "none" /\ writer'.snap.trades = {}
            /\ disk' = IF ok THEN writer.snap ELSE disk
        BY <2>2 DEF ApiEndsWrite, EndWrite, NoWriter, Empty
      <3>2. OwnerGoes /\ MemoryGoes /\ FileGoes /\ SnapshotGoes /\ clock <= clock'
        BY <1>0, <3>1 DEF OwnerGoes, MemoryGoes, FileGoes, SnapshotGoes
      <3> QED BY <1>0, <3>1, <3>2, RingStands
    <2> QED BY <1>6, <2>1, <2>2 DEF ApiWrites
  <1>7. CASE OctoBot
    BY <1>0, <1>7, SettleKeepsRing DEF OctoBot
  <1>8. CASE Crash
    <2>1. /\ mem' = disk /\ disk' = disk /\ writer'.who = "none" /\ writer'.snap.trades = {}
          /\ op'.pc \notin Claimed /\ UNCHANGED <<clock, orders>>
      BY <1>8, BuiltTypes DEF Crash, NoWriter, Empty, Claimed
    <2>2. OwnerGoes /\ MemoryGoes /\ FileGoes /\ SnapshotGoes /\ clock <= clock'
      BY <1>0, <2>1 DEF OwnerGoes, MemoryGoes, FileGoes, SnapshotGoes, Claimed
    <2> QED BY <1>0, <2>1, <2>2, RingStands
  <1>9. CASE Tick
    <2>1. UNCHANGED <<mem, disk, writer, op, orders>> /\ clock' = clock + 1
      BY <1>9 DEF Tick, store
    <2>2. OwnerGoes /\ clock <= clock'
      BY <1>0, <2>1 DEF OwnerGoes
    <2> QED BY <1>0, <2>1, <2>2, StoreStands, RingStands
  <1>10. CASE UNCHANGED vars
    <2>1. UNCHANGED <<clock, mem, disk, writer, op, orders>>
      BY <1>10 DEF vars, store
    <2>2. OwnerGoes /\ clock <= clock'
      BY <1>0, <2>1 DEF OwnerGoes
    <2> QED BY <1>0, <2>1, <2>2, StoreStands, RingStands
  <1> QED
    BY <1>1, <1>2, <1>3, <1>4, <1>5, <1>6, <1>7, <1>8, <1>9, <1>10 DEF Next

(* execute_if_warranted keeps its distance from an equivalent order, also when
   a crash or an import rewrote what Gail remembers of it, until RingSize later
   trades have pushed it out of the ring. *)
THEOREM KeepsDistance == Spec => []CooldownHolds
  <1>1. RingInv => CooldownHolds
    BY DEF RingInv
  <1> QED BY Inductive, InitRing, StepRing, <1>1, PTL DEF Spec
=============================================================================
