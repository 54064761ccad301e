------------------------------ MODULE EdgeProofs ------------------------------
(***************************************************************************)
(* Theorems of the edges of the server.  Towards OctoBot: the submission   *)
(* of an order (OrderSubmission), the market data lake (MarketLake), the   *)
(* scan of an exchange (VenueScan), the calls and what is told of them     *)
(* (OctobotApi) and what is learned of their failures (ApiRegistry).       *)
(* Towards the clients: the governed exchange (HttpFront), the voice skill *)
(* (VoiceSkill) and the store of credentials (CredentialVault).  Each is   *)
(* proved about its component's own specification, for every value of its  *)
(* constants; the last theorem is about the composition of them all.       *)
(***************************************************************************)
EXTENDS MCEdges, FiniteSetTheorems, WellFoundedInduction, TLAPS

(* ---------------------------------------------------------------------- *)
(* The store of credentials                                               *)

Contents == [Account -> [key: VaultKey, secret: Secret \cup {NoSecret}]]

Usage == [at: {"idle", "lock", "read", "write", "renamed", "return"},
          op: {"none", "put", "delete", "list", "get", "open"}, acc: Account,
          secret: Secret \cup {NoSecret}, key: VaultKey, read: Contents \cup {<<>>},
          got: Secret \cup {NoSecret}]

\* The store, the lock file and the calls have their types.
VaultTypeOK ==
  /\ vault \in Contents
  /\ newest \in Contents
  /\ usage \in [Client -> Usage]
  /\ locks \in [readers: SUBSET Client, writer: SUBSET Client]

Inside(c) == usage[c].at \in {"read", "write", "renamed", "return"}

\* The lock file names the calls past it, and a call that changes the store is alone.
LocksInv ==
  /\ \A c \in Client: c \in locks.writer <=> Inside(c) /\ Exclusive(usage[c].op)
  /\ \A c \in Client: c \in locks.readers <=> Inside(c) /\ ~Exclusive(usage[c].op)
  /\ \A c, d \in Client: c \in locks.writer /\ Inside(d) => c = d

\* What a call has read is still what the file holds, and what the
\* acknowledged calls left.
CallInv(c) ==
  /\ usage[c].at \in {"write", "renamed"} => Exclusive(usage[c].op)
  /\ usage[c].at = "return" => usage[c].op = "get"
  /\ usage[c].at = "write" => usage[c].read = vault
  /\ usage[c].at = "return" => usage[c].got = newest[usage[c].acc].secret

\* The file is what the acknowledged calls left, but for a provider whose
\* record was just renamed into it.
FileInv == \A a \in Account: vault[a] # newest[a] =>
                \E c \in Client: usage[c].at = "renamed" /\ usage[c].acc = a

VaultInv == VaultTypeOK /\ LocksInv /\ (\A c \in Client: CallInv(c)) /\ FileInv

LEMMA QuietIsUsage == Quiet \in Usage /\ Quiet.at = "idle"
  BY VaultAssumption DEF Quiet, Usage

\* A call that ends, however, gives its lock back and leaves in the file what
\* it renamed, acknowledged or not.
LEMMA EndKeepsVault ==
  ASSUME VaultInv, NEW c \in Client, End(c), vault' = vault,
         newest' = IF usage[c].at = "renamed"
                   THEN [newest EXCEPT ![usage[c].acc] = vault[usage[c].acc]] ELSE newest
  PROVE  VaultInv'
<1>1. usage[c] \in Usage /\ usage[c].acc \in Account
  BY DEF VaultInv, VaultTypeOK, Usage
<1>2. usage' \in [Client -> Usage] /\ usage'[c] = Quiet /\ \A d \in Client \ {c}: usage'[d] = usage[d]
  BY QuietIsUsage DEF End, VaultInv, VaultTypeOK
<1>3. newest' \in Contents /\ \A a \in Account: newest'[a] = newest[a] \/ newest'[a] = vault[a]
  BY <1>1 DEF VaultInv, VaultTypeOK, Contents
<1>4. locks' \in [readers: SUBSET Client, writer: SUBSET Client]
      /\ locks'.readers = locks.readers \ {c} /\ locks'.writer = locks.writer \ {c}
  BY DEF End, Unlocked, VaultInv, VaultTypeOK
<1>5. VaultTypeOK'
  BY <1>2, <1>3, <1>4 DEF VaultInv, VaultTypeOK
<1>6. LocksInv'
  BY <1>2, <1>4, QuietIsUsage DEF VaultInv, LocksInv, Inside
<1>7. ASSUME NEW d \in Client PROVE CallInv(d)'
  <2>1. CASE d = c
    BY <2>1, <1>2, QuietIsUsage DEF CallInv
  <2>2. CASE d # c /\ usage[c].at # "renamed"
    BY <2>2, <1>2 DEF VaultInv, CallInv
  <2>3. CASE d # c /\ usage[c].at = "renamed"
    <3>1. ~Inside(d)
      BY <2>3 DEF VaultInv, LocksInv, CallInv, Inside
    <3> QED
      BY <2>3, <3>1, <1>2 DEF CallInv, Inside
  <2> QED
    BY <2>1, <2>2, <2>3
<1>8. FileInv'
  <2> SUFFICES ASSUME NEW a \in Account, vault[a] # newest'[a]
               PROVE  \E d \in Client: usage'[d].at = "renamed" /\ usage'[d].acc = a
    BY DEF FileInv
  <2>1. vault[a] # newest[a]
    BY <1>3
  <2>2. PICK d \in Client: usage[d].at = "renamed" /\ usage[d].acc = a
    BY <2>1 DEF VaultInv, FileInv
  <2>3. d # c
    BY <2>2, <1>1 DEF VaultInv, VaultTypeOK, Contents
  <2> QED
    BY <2>2, <2>3, <1>2
<1> QED
  BY <1>5, <1>6, <1>7, <1>8 DEF VaultInv

\* A call waits for the lock.
LEMMA BeginKeepsVault ==
  ASSUME VaultInv, NEW c \in Client, Begin(c)
  PROVE  VaultInv'
<1>1. PICK u \in Usage: u.at = "lock" /\ usage' = [usage EXCEPT ![c] = u]
  BY VaultAssumption, QuietIsUsage DEF Begin, Save, Delete, List, Get, OpenVault, Quiet, Usage
<1>2. usage[c].at = "idle" /\ UNCHANGED <<vault, locks, newest>>
  BY DEF Begin
<1>3. usage' \in [Client -> Usage] /\ usage'[c].at = "lock"
      /\ \A d \in Client \ {c}: usage'[d] = usage[d]
  BY <1>1 DEF VaultInv, VaultTypeOK
<1>4. VaultTypeOK' /\ LocksInv'
  BY <1>2, <1>3 DEF VaultInv, VaultTypeOK, LocksInv, Inside
<1>5. \A d \in Client: CallInv(d)'
  BY <1>2, <1>3 DEF VaultInv, CallInv
<1>6. FileInv'
  BY <1>2, <1>3 DEF VaultInv, FileInv
<1> QED
  BY <1>4, <1>5, <1>6 DEF VaultInv

\* with_locked_file: nobody reads beside a call that changes the store.
LEMMA LockKeepsVault ==
  ASSUME VaultInv, NEW c \in Client, Lock(c)
  PROVE  VaultInv'
<1>1. usage' \in [Client -> Usage] /\ usage'[c] = [usage[c] EXCEPT !.at = "read"]
      /\ \A d \in Client \ {c}: usage'[d] = usage[d]
  BY DEF Lock, VaultInv, VaultTypeOK, Usage
<1>2. usage[c].at = "lock" /\ usage'[c].at = "read" /\ usage'[c].op = usage[c].op
  BY <1>1 DEF Lock, VaultInv, VaultTypeOK, Usage
<1>3. UNCHANGED <<vault, newest>>
  BY DEF Lock
<1>4. VaultTypeOK'
  BY <1>1, <1>3 DEF Lock, VaultInv, VaultTypeOK
<1>5. LocksInv'
  <2>1. CASE Exclusive(usage[c].op)
    <3>1. locks.readers = {} /\ locks.writer = {} /\ locks'.readers = {} /\ locks'.writer = {c}
      BY <2>1 DEF Lock, VaultInv, VaultTypeOK
    <3>2. \A d \in Client: ~Inside(d)
      BY <3>1 DEF VaultInv, LocksInv
    <3> QED
      BY <2>1, <3>1, <3>2, <1>1, <1>2 DEF LocksInv, Inside
  <2>2. CASE ~Exclusive(usage[c].op)
    <3>1. locks.writer = {} /\ locks'.writer = {} /\ locks'.readers = locks.readers \cup {c}
      BY <2>2 DEF Lock, VaultInv, VaultTypeOK
    <3> QED
      BY <2>2, <3>1, <1>1, <1>2 DEF VaultInv, LocksInv, Inside
  <2> QED
    BY <2>1, <2>2
<1>6. ASSUME NEW d \in Client PROVE CallInv(d)'
  <2>1. CASE d = c
    BY <2>1, <1>2 DEF CallInv
  <2>2. CASE d # c
    BY <2>2, <1>1, <1>3 DEF VaultInv, CallInv
  <2> QED
    BY <2>1, <2>2
<1>7. FileInv'
  BY <1>1, <1>2, <1>3 DEF VaultInv, FileInv
<1> QED
  BY <1>4, <1>5, <1>6, <1>7 DEF VaultInv

\* A call reads the file: one that will change it keeps it whole, one that
\* answers keeps the secret of its provider.  No record is on its way
\* into the file meanwhile.
LEMMA ReadKeepsVault ==
  ASSUME VaultInv, NEW c \in Client, ReadVault(c)
  PROVE  VaultInv'
<1> USE DEF Exclusive
<1>0. usage[c] \in Usage /\ usage[c].at = "read" /\ UNCHANGED <<vault, newest>>
  BY DEF ReadVault, VaultInv, VaultTypeOK
<1>1. CASE End(c)
  BY <1>0, <1>1, EndKeepsVault
<1>2. \A d \in Client: usage[d].at # "renamed"
  BY <1>0 DEF VaultInv, LocksInv, CallInv, Inside
<1>3. vault = newest
  BY <1>2 DEF VaultInv, FileInv, VaultTypeOK, Contents
<1>4. ASSUME NEW u \in Usage, usage' = [usage EXCEPT ![c] = u], UNCHANGED locks,
             u.op = usage[c].op, u.acc = usage[c].acc,
             \/ u.at = "write" /\ u.read = vault /\ Exclusive(u.op)
             \/ u.at = "return" /\ u.op = "get" /\ u.got = vault[u.acc].secret
      PROVE  VaultInv'
  <2>1. usage' \in [Client -> Usage] /\ usage'[c] = u /\ \A d \in Client \ {c}: usage'[d] = usage[d]
    BY <1>4 DEF VaultInv, VaultTypeOK
  <2>2. VaultTypeOK' /\ LocksInv'
    BY <2>1, <1>4, <1>0 DEF VaultInv, VaultTypeOK, LocksInv, Inside
  <2>3. \A d \in Client: CallInv(d)'
    BY <2>1, <1>4, <1>0, <1>3 DEF VaultInv, CallInv
  <2>4. FileInv'
    BY <1>0, <1>3 DEF FileInv
  <2> QED
    BY <2>2, <2>3, <2>4 DEF VaultInv
<1>5. CASE /\ usage[c].op \in {"put", "delete"} /\ UNCHANGED locks
           /\ usage' = [usage EXCEPT ![c].at = "write", ![c].read = vault]
  <2> DEFINE u == [usage[c] EXCEPT !.at = "write", !.read = vault]
  <2>1. u \in Usage /\ u.op = usage[c].op /\ u.acc = usage[c].acc /\ u.at = "write" /\ u.read = vault
    BY <1>0 DEF Usage, VaultInv, VaultTypeOK
  <2>2. usage' = [usage EXCEPT ![c] = u]
    BY <1>5 DEF VaultInv, VaultTypeOK
  <2> HIDE DEF u
  <2> QED
    BY <2>1, <2>2, <1>4, <1>5
<1>6. CASE /\ usage[c].op = "get" /\ UNCHANGED locks
           /\ usage' = [usage EXCEPT ![c].at = "return", ![c].got = vault[usage[c].acc].secret]
  <2> DEFINE u == [usage[c] EXCEPT !.at = "return", !.got = vault[usage[c].acc].secret]
  <2>1. vault[usage[c].acc].secret \in Secret \cup {NoSecret}
    BY <1>0 DEF Usage, VaultInv, VaultTypeOK, Contents
  <2>2. u \in Usage /\ u.op = usage[c].op /\ u.acc = usage[c].acc /\ u.at = "return"
        /\ u.got = vault[usage[c].acc].secret
    BY <1>0, <2>1 DEF Usage
  <2>3. usage' = [usage EXCEPT ![c] = u]
    BY <1>6 DEF VaultInv, VaultTypeOK
  <2> HIDE DEF u
  <2> QED
    BY <2>2, <2>3, <1>4, <1>6
<1> QED
  BY <1>1, <1>5, <1>6 DEF ReadVault

\* write_vault_atomic: only the record of the call's own provider changes.
LEMMA WriteKeepsVault ==
  ASSUME VaultInv, NEW c \in Client, WriteVault(c)
  PROVE  VaultInv'
<1>0. usage[c] \in Usage /\ usage[c].at = "write" /\ UNCHANGED newest
      /\ usage[c].read = vault /\ usage[c].acc \in Account /\ Exclusive(usage[c].op)
  BY DEF WriteVault, VaultInv, VaultTypeOK, CallInv, Usage
<1>1. CASE End(c) /\ UNCHANGED vault
  BY <1>0, <1>1, EndKeepsVault
<1>2. CASE /\ vault' = Changed(c) /\ UNCHANGED locks
           /\ usage' = [usage EXCEPT ![c].at = "renamed"]
  <2>1. usage' \in [Client -> Usage] /\ usage'[c].at = "renamed" /\ usage'[c].op = usage[c].op
        /\ usage'[c].acc = usage[c].acc /\ \A d \in Client \ {c}: usage'[d] = usage[d]
    BY <1>0, <1>2 DEF VaultInv, VaultTypeOK, Usage
  <2>2. Seal(c) \in [key: VaultKey, secret: Secret \cup {NoSecret}]
        /\ Unset \in [key: VaultKey, secret: Secret \cup {NoSecret}]
    BY <1>0, VaultAssumption DEF Seal, Sealed, Unset, Usage
  <2>3. vault' \in Contents /\ \A a \in Account \ {usage[c].acc}: vault'[a] = vault[a]
    BY <1>0, <1>2, <2>2 DEF Changed, VaultInv, VaultTypeOK, Contents
  <2>4. \A d \in Client \ {c}: ~Inside(d)
    BY <1>0 DEF VaultInv, LocksInv, Inside
  <2>5. VaultTypeOK' /\ LocksInv'
    BY <1>0, <1>2, <2>1, <2>3 DEF VaultInv, VaultTypeOK, LocksInv, Inside
  <2>6. \A d \in Client: CallInv(d)'
    BY <1>0, <2>1, <2>4 DEF CallInv, Inside
  <2>7. FileInv'
    BY <1>0, <2>1, <2>3, <2>4 DEF VaultInv, FileInv, Inside
  <2> QED
    BY <2>5, <2>6, <2>7 DEF VaultInv
<1> QED
  BY <1>1, <1>2 DEF WriteVault

LEMMA VaultKeeps ==
  ASSUME VaultInv, [VaultNext]_vaultVars
  PROVE  VaultInv'
<1>1. CASE VaultNext
  <2> PICK c \in Client: Begin(c) \/ Lock(c) \/ ReadVault(c) \/ WriteVault(c) \/ Acknowledge(c)
                           \/ Return(c) \/ Die(c)
    BY <1>1 DEF VaultNext
  <2>1. CASE Acknowledge(c) \/ Return(c) \/ Die(c)
    BY <2>1, EndKeepsVault DEF Acknowledge, Return, Die
  <2> QED
    BY <2>1, BeginKeepsVault, LockKeepsVault, ReadKeepsVault, WriteKeepsVault
<1>2. CASE UNCHANGED vaultVars
  BY <1>2 DEF vaultVars, VaultInv, VaultTypeOK, LocksInv, CallInv, FileInv, Inside
<1> QED
  BY <1>1, <1>2

LEMMA VaultStarts ==
  ASSUME VaultInit PROVE VaultInv
<1>1. Unset \in [key: VaultKey, secret: Secret \cup {NoSecret}]
  BY VaultAssumption DEF Unset, Sealed
<1>2. VaultTypeOK
  BY <1>1, QuietIsUsage DEF VaultInit, VaultTypeOK, Contents
<1>3. \A c \in Client: usage[c].at = "idle"
  BY QuietIsUsage DEF VaultInit
<1>4. LocksInv
  BY <1>3 DEF VaultInit, LocksInv, Inside
<1> QED
  BY <1>2, <1>3, <1>4 DEF VaultInit, VaultInv, CallInv, FileInv

\* The store of credentials keeps its types (model_credentials.rs).
THEOREM VaultTypes == VaultSpec => []VaultTypeOK
<1>1. VaultInv => VaultTypeOK
  BY DEF VaultInv
<1> QED
  BY <1>1, VaultStarts, VaultKeeps, PTL DEF VaultSpec

(* Whatever calls of one process or of several read, write, rename and die in
   between, an acknowledged put or delete stays until a later one of the same
   provider, and a reader is given the newest (with_locked_file,
   write_vault_atomic). *)
THEOREM AcknowledgedStays == VaultSpec => []NoSaveIsLost
<1>1. VaultInv => NoSaveIsLost
  BY DEF VaultInv, FileInv, CallInv, NoSaveIsLost, Renaming
<1> QED
  BY <1>1, VaultStarts, VaultKeeps, PTL DEF VaultSpec

(* ---------------------------------------------------------------------- *)
(* The submission of an order                                             *)

VenueOrders == [own: Nat, seen: {"no", "open", "trade"}, named: BOOLEAN]

IsPlacing(p) == p = [pc |-> p.pc, all |-> p.all, ways |-> p.ways, direct |-> p.direct,
                     tries |-> p.tries, amount |-> p.amount, start |-> p.start]

OrderTypeOK ==
  /\ venue \in Seq(VenueOrders)
  /\ reports \in Seq({"accepted", "failed"})
  /\ IsPlacing(placing) /\ placing.pc \in {"idle", "baseline", "submit", "watch"}

\* No order is of a call to come, no two are of the same call, and a call that
\* may still post has none: what might have been taken ends the tries.
VenueInv ==
  /\ \A i \in DOMAIN venue: venue[i].own <= Call
  /\ \A i, j \in DOMAIN venue: venue[i].own = venue[j].own /\ venue[i].own # 0 => i = j
  /\ placing.pc # "watch" => \A i \in DOMAIN venue: venue[i].own # Call

OrderInv == OrderTypeOK /\ VenueInv /\ proven \in {0, preferred}

LEMMA CallIsPositive ==
  ASSUME OrderTypeOK PROVE Call \in Nat /\ Call > 0
  BY DEF OrderTypeOK, Call

\* What a step does to the orders and the call, whatever else it does.
Ends == placing' = NoCall /\ \E how \in {"accepted", "failed"}: reports' = Append(reports, how)
StaysInCall == IsPlacing(placing') /\ placing'.pc \in {"idle", "baseline", "submit", "watch"}
               /\ UNCHANGED reports

LEMMA OrderIsTaken ==
  ASSUME OrderTypeOK, VenueInv, TakeOrder, placing.pc # "watch"
  PROVE  /\ venue' \in Seq(VenueOrders)
         /\ \A i \in DOMAIN venue': venue'[i].own <= Call
         /\ \A i, j \in DOMAIN venue': venue'[i].own = venue'[j].own /\ venue'[i].own # 0 => i = j
<1> DEFINE new == VenueOrder(Call, "no", FALSE)
<1>1. new \in VenueOrders /\ new.own = Call /\ venue' = Append(venue, new)
  BY CallIsPositive DEF VenueOrder, VenueOrders, TakeOrder
<1>2. venue \in Seq(VenueOrders)
  BY DEF OrderTypeOK
<1> HIDE DEF new
<1>3. /\ venue' \in Seq(VenueOrders) /\ DOMAIN venue' = 1..(Len(venue) + 1) /\ DOMAIN venue = 1..Len(venue)
      /\ \A i \in DOMAIN venue: venue'[i] = venue[i]
      /\ venue'[Len(venue) + 1] = new
  BY <1>1, <1>2
<1>4. \A i \in DOMAIN venue': i \in DOMAIN venue \/ (i = Len(venue) + 1 /\ venue'[i].own = Call)
  <2>1. Len(venue) \in Nat
    BY <1>2
  <2>2. \A i \in 1..(Len(venue) + 1): i \in 1..Len(venue) \/ i = Len(venue) + 1
    BY <2>1
  <2>3. venue'[Len(venue) + 1].own = Call
    BY <1>1, <1>3
  <2>4. ASSUME NEW i \in DOMAIN venue', i \notin DOMAIN venue
        PROVE  i = Len(venue) + 1
    BY <1>3, <2>2, <2>4
  <2> QED
    BY <2>3, <2>4
<1>5. \A i \in DOMAIN venue: venue'[i].own = venue[i].own /\ venue'[i].own # Call
  BY <1>3 DEF VenueInv
<1>6. \A i \in DOMAIN venue': venue'[i].own <= Call
  BY <1>4, <1>5, CallIsPositive DEF VenueInv
<1>7. ASSUME NEW i \in DOMAIN venue', NEW j \in DOMAIN venue', venue'[i].own = venue'[j].own, venue'[i].own # 0
      PROVE  i = j
  BY <1>4, <1>5, <1>7 DEF VenueInv
<1> QED
  BY <1>3, <1>6, <1>7

LEMMA EndKeepsOrders ==
  ASSUME OrderInv, Ends, MaybeTakeOrder, placing.pc # "watch" \/ UNCHANGED venue,
         proven' \in {0, preferred'}
  PROVE  OrderInv'
<1>1. venue' \in Seq(VenueOrders) /\ (\A i \in DOMAIN venue': venue'[i].own <= Call)
      /\ \A i, j \in DOMAIN venue': venue'[i].own = venue'[j].own /\ venue'[i].own # 0 => i = j
  <2>1. CASE UNCHANGED venue
    BY <2>1 DEF OrderInv, OrderTypeOK, VenueInv
  <2>2. CASE TakeOrder /\ placing.pc # "watch"
    BY <2>2, OrderIsTaken DEF OrderInv
  <2> QED
    BY <2>1, <2>2 DEF MaybeTakeOrder
<1>2. reports' \in Seq({"accepted", "failed"}) /\ Call' = Call + 1
  BY DEF Ends, OrderInv, OrderTypeOK, Call
<1>3. OrderTypeOK'
  BY <1>1, <1>2 DEF Ends, OrderTypeOK, NoCall, IsPlacing
<1>4. \A i \in DOMAIN venue': venue'[i].own \in Nat
  <2>1. \A o \in VenueOrders: o.own \in Nat
    BY DEF VenueOrders
  <2> QED
    BY <1>1, <2>1
<1>5. Call \in Nat
  BY CallIsPositive DEF OrderInv
<1>6. VenueInv'
  BY <1>1, <1>2, <1>4, <1>5 DEF VenueInv
<1> QED
  BY <1>3, <1>6 DEF OrderInv

LEMMA CallGoesOn ==
  ASSUME OrderInv, StaysInCall, UNCHANGED venue, placing.pc = "watch" => placing'.pc = "watch",
         proven' \in {0, preferred'}
  PROVE  OrderInv'
  BY DEF OrderInv, OrderTypeOK, VenueInv, StaysInCall, Call

\* The post of the only endpoint that may have taken the order: its traces are looked for.
LEMMA WatchKeepsOrders ==
  ASSUME OrderInv, MaybeTakeOrder, placing.pc = "submit", placing' = [placing EXCEPT !.pc = "watch"],
         UNCHANGED <<preferred, proven, reports>>
  PROVE  OrderInv'
<1>1. IsPlacing(placing') /\ placing'.pc = "watch"
  BY DEF OrderInv, OrderTypeOK, IsPlacing
<1>2. CASE UNCHANGED venue
  BY <1>1, <1>2, CallGoesOn DEF StaysInCall, OrderInv
<1>3. CASE TakeOrder
  BY <1>1, <1>3, OrderIsTaken DEF OrderInv, OrderTypeOK, VenueInv, Call
<1> QED
  BY <1>2, <1>3 DEF MaybeTakeOrder

\* An endpoint that fails is proven no longer, or was not.
LEMMA ForgetKeepsProven ==
  ASSUME OrderInv, NEW w, Forget(w) PROVE proven' \in {0, preferred'}
  BY DEF OrderInv, Forget

\* A refusal after which another endpoint or a smaller amount is tried is one
\* that says the order was not taken.
LEMMA RefusalKeepsOrders ==
  ASSUME OrderInv, NEW status \in {"client", "server"}, NEW body \in Body \ {"order"},
         RefusedBy(status, body)
  PROVE  OrderInv'
<1>0. placing.pc = "submit" /\ proven' \in {0, preferred'}
  BY ForgetKeepsProven DEF RefusedBy
<1>1. CASE EndPlacing("failed")
  BY <1>0, <1>1, EndKeepsOrders DEF RefusedBy, EndPlacing, Ends, MaybeTakeOrder
<1>2. CASE /\ Refusal(status, body) \in {"next", "less"} /\ UNCHANGED reports
           /\ \/ placing' = [placing EXCEPT !.ways = Tail(@)]
              \/ \E a \in Smaller(placing.amount):
                   placing' = [placing EXCEPT !.amount = a, !.tries = @ - 1, !.ways = placing.all]
  <2>1. UNCHANGED venue
    BY <1>2 DEF RefusedBy, Refusal
  <2>2. IsPlacing(placing)
    BY DEF OrderInv, OrderTypeOK
  <2>3. ASSUME placing' = [placing EXCEPT !.ways = Tail(@)]
        PROVE  IsPlacing(placing') /\ placing'.pc = "submit"
    BY <2>2, <2>3, <1>0 DEF IsPlacing
  <2>4. ASSUME NEW a, placing' = [placing EXCEPT !.amount = a, !.tries = @ - 1, !.ways = placing.all]
        PROVE  IsPlacing(placing') /\ placing'.pc = "submit"
    BY <2>2, <2>4, <1>0 DEF IsPlacing
  <2>5. IsPlacing(placing') /\ placing'.pc = "submit"
    BY <1>2, <2>3, <2>4
  <2> QED
    BY <1>0, <1>2, <2>1, <2>5, CallGoesOn DEF StaysInCall
<1> QED
  BY <1>1, <1>2 DEF RefusedBy

\* The exchange and its other users change no owner.
LEMMA VenueKeepsOrders ==
  ASSUME OrderInv, UNCHANGED <<preferred, proven, placing, reports>>,
         \/ RivalOrders
         \/ \E i \in DOMAIN venue, seen \in {"open", "trade"}, named \in BOOLEAN:
              VenueShows(i, seen, named)
  PROVE  OrderInv'
<1>0. venue \in Seq(VenueOrders) /\ Call' = Call /\ Call \in Nat /\ Call > 0
  BY CallIsPositive DEF OrderInv, OrderTypeOK, Call
<1>1. CASE RivalOrders
  <2> DEFINE new == VenueOrder(0, "no", FALSE)
  <2>1. new \in VenueOrders /\ new.own = 0 /\ venue' = Append(venue, new)
    BY <1>1 DEF RivalOrders, VenueOrder, VenueOrders
  <2> HIDE DEF new
  <2>2. /\ venue' \in Seq(VenueOrders) /\ DOMAIN venue' = 1..(Len(venue) + 1)
        /\ DOMAIN venue = 1..Len(venue)
        /\ \A i \in DOMAIN venue: venue'[i] = venue[i]
        /\ venue'[Len(venue) + 1] = new
    BY <2>1, <1>0
  <2>3. \A i \in DOMAIN venue': i \in DOMAIN venue \/ venue'[i].own = 0
    BY <2>1, <2>2, <1>0
  <2>4. VenueInv'
    BY <1>0, <2>2, <2>3 DEF OrderInv, VenueInv
  <2> QED
    BY <2>2, <2>4 DEF OrderInv, OrderTypeOK
<1>2. CASE \E i \in DOMAIN venue, seen \in {"open", "trade"}, named \in BOOLEAN:
             VenueShows(i, seen, named)
  <2>1. PICK i \in DOMAIN venue, seen \in {"open", "trade"}, named \in BOOLEAN:
          venue' = [venue EXCEPT ![i] = VenueOrder(venue[i].own, seen, named)]
    BY <1>2 DEF VenueShows
  <2> DEFINE new == VenueOrder(venue[i].own, seen, named)
  <2>2. venue[i] \in VenueOrders
    BY <1>0
  <2>3. new \in VenueOrders /\ new.own = venue[i].own /\ venue' = [venue EXCEPT ![i] = new]
    BY <2>1, <2>2 DEF VenueOrder, VenueOrders
  <2> HIDE DEF new
  <2>4. venue' \in Seq(VenueOrders) /\ DOMAIN venue' = DOMAIN venue
        /\ \A j \in DOMAIN venue: venue'[j].own = venue[j].own
    BY <2>3, <1>0
  <2>5. VenueInv'
    BY <1>0, <2>4 DEF OrderInv, VenueInv
  <2> QED
    BY <2>4, <2>5 DEF OrderInv, OrderTypeOK
<1> QED
  BY <1>1, <1>2

LEMMA OrdersKeep ==
  ASSUME OrderInv, [OrderNext]_orderVars
  PROVE  OrderInv'
<1>0. proven \in {0, preferred} /\ IsPlacing(placing)
  BY DEF OrderInv, OrderTypeOK
<1>1. CASE BeginPlacing
  <2>1. IsPlacing(placing') /\ placing'.pc \in {"submit", "baseline"} /\ placing.pc = "idle"
    BY <1>1 DEF BeginPlacing, IsPlacing
  <2> QED
    BY <1>0, <1>1, <2>1, CallGoesOn DEF BeginPlacing, StaysInCall
<1>2. CASE BaselineFirst \/ \E a, b \in BOOLEAN: CaptureBaseline(a, b)
  <2>1. IsPlacing(placing') /\ placing'.pc \in {"submit", "baseline"} /\ placing.pc # "watch"
    BY <1>0, <1>2 DEF BaselineFirst, CaptureBaseline, IsPlacing
  <2> QED
    BY <1>0, <1>2, <2>1, CallGoesOn DEF BaselineFirst, CaptureBaseline, StaysInCall
<1>3. CASE Unanswered \/ NoSideEffect \/ \E i \in DOMAIN venue: SideEffect(i)
  BY <1>0, <1>3, EndKeepsOrders
     DEF Unanswered, NoSideEffect, SideEffect, EndPlacing, Ends, MaybeTakeOrder
<1>4. CASE Acknowledged
  BY <1>4, EndKeepsOrders DEF Acknowledged, EndPlacing, Ends, MaybeTakeOrder
<1>5. CASE Unacknowledged
  <2>1. CASE EndPlacing("failed")
    BY <1>0, <1>5, <2>1, EndKeepsOrders DEF Unacknowledged, EndPlacing, Ends
  <2>2. CASE placing' = [placing EXCEPT !.pc = "watch"] /\ UNCHANGED reports
    BY <1>5, <2>2, WatchKeepsOrders DEF Unacknowledged
  <2> QED
    BY <1>5, <2>1, <2>2 DEF Unacknowledged
<1>6. CASE RivalOrders \/ \E i \in DOMAIN venue, seen \in {"open", "trade"}, named \in BOOLEAN:
                            VenueShows(i, seen, named)
  BY <1>6, VenueKeepsOrders DEF RivalOrders, VenueShows
<1>7. CASE UNCHANGED orderVars
  BY <1>0, <1>7 DEF orderVars, OrderInv, OrderTypeOK, VenueInv, Call
<1> QED
  BY <1>1, <1>2, <1>3, <1>4, <1>5, <1>6, <1>7, RefusalKeepsOrders DEF OrderNext

(* place_order leaves at most one order of a call on the exchange, however many
   endpoints and amounts it tries and whatever they answer, and the endpoint it
   uses without a baseline is the preferred one. *)
THEOREM OneOrderReaches == OrderSpec => []OneOrderPerCall
<1>1. OrderInit => OrderInv
  BY DEF OrderInit, OrderInv, OrderTypeOK, VenueInv, NoCall, IsPlacing, Call
<1>2. ASSUME OrderInv PROVE OneOrderPerCall
  <2>1. ASSUME NEW c \in 1..Call PROVE Cardinality(Own(c)) <= 1
    <3>1. CASE Own(c) = {}
      BY <3>1, FS_EmptySet
    <3>2. CASE Own(c) # {}
      <4>1. PICK i \in Own(c): TRUE
        BY <3>2
      <4>2. c # 0
        BY <1>2, CallIsPositive DEF OrderInv
      <4>3. Own(c) = {i}
        BY <1>2, <4>1, <4>2 DEF Own, OrderInv, VenueInv
      <4>4. Cardinality({i}) = 1
        BY FS_Singleton
      <4> QED
        BY <4>3, <4>4
    <3> QED
      BY <3>1, <3>2
  <2> QED
    BY <1>2, <2>1 DEF OneOrderPerCall, OrderInv
<1> QED
  BY <1>1, <1>2, OrdersKeep, PTL DEF OrderSpec
(* ---------------------------------------------------------------------- *)
(* The governed exchange                                                  *)

Verdict == {NoVerdict} \cup Replies

\* How an operation is sent on.
Sendings == [how: {"none", "direct", "complete"}, configured: BOOLEAN, most: 0..2]

\* What a handler answers.
BodyKinds == {"none", "error", "context", "hold"} \cup Results

\* An exchange, whatever its state.
Served == [at: {"new", "guard", "reading", "asking", "enter", "complete", "run", "tell"} \cup Final,
           via: Governed \cup {"internal", "assess", "none"},
           route: {"none", "error", "orchestrated", "explicit"}, own: BOOLEAN,
           plan: PlanKey \cup {NoKey},
           sent: Sendings,
           marked: BOOLEAN, held: {0, 1}, asked: Verdict, told: Verdict,
           body: BodyKinds, checks: [Phase -> {0, 1}]]

Watched == aria.mode # "disabled"

\* Who holds a permit: every governed exchange past the guard and every
\* completion of an in-process user, while governance is on.
HoldsOK(x) ==
  /\ x.at # "new" => x.via # "none"
  /\ x.at \in {"new", "guard"} \cup Final => x.held = 0
  /\ x.at \in {"guard", "reading"} => x.via \in Governed
  /\ x.at \in {"reading", "asking"} => x.held = 1 /\ ~x.marked /\ x.via # "assess"
  /\ x.at = "enter" /\ x.via \in Governed /\ Watched => x.marked
  /\ x.at = "enter" /\ x.via \notin Governed => ~x.marked /\ x.held = 0
  /\ x.at = "complete" => \/ x.via \in Governed /\ (Watched => x.marked)
                          \/ x.via = "internal" /\ x.held = 0 /\ ~x.marked
                          \/ x.via = "assess"
  /\ x.marked => x.held = 1 /\ x.via \in Governed
  /\ x.at \in {"run", "tell"} /\ x.via # "assess" /\ Watched => x.held = 1

\* What Aria was asked and has said of it.
AskedOK(e, x) ==
  /\ x.marked /\ FailureRefuses => Allowed(e, x.asked, "request")
  /\ FailureRefuses /\ x.via # "assess" =>
       /\ x.at \in {"run", "tell", "delivered"} => Allowed(e, x.asked, "request")
       /\ x.at = "delivered" => Allowed(e, x.told, "response")

ChecksOK(x) ==
  /\ x.at \notin Final => x.checks["response"] = 0
  /\ x.at \in {"new", "guard", "reading", "asking"} => x.checks["request"] = 0
  /\ x.at \in {"enter", "complete"} /\ ~x.marked => x.checks["request"] = 0
  /\ x.via = "assess" => x.checks["request"] = 0 /\ x.checks["response"] = 0

RouteOK(x) ==
  /\ x.own => x.via \in {"chat", "responses"}
  /\ x.route = "error" => x.via \in {"chat", "responses"}
  /\ x.own /\ x.route = "explicit" /\ x.sent.most > 0 => x.sent.most = 1 /\ ~x.sent.configured

ExchangeOK(e, x) ==
  x \in Served /\ HoldsOK(x) /\ AskedOK(e, x) /\ ChecksOK(x) /\ RouteOK(x)

Ordinary(x) == IF x.held = 1 /\ x.via # "assess" THEN 1 ELSE 0
Assessing(x) == IF x.held = 1 /\ x.via = "assess" THEN 1 ELSE 0
OrdinaryHolders == {e \in Exchange: ex[e].held = 1 /\ ex[e].via # "assess"}
AssessmentHolders == {e \in Exchange: ex[e].held = 1 /\ ex[e].via = "assess"}

FrontInv ==
  /\ ex \in [Exchange -> Served] /\ \A e \in Exchange: ExchangeOK(e, ex[e])
  /\ slots \in Int /\ assessing \in Int
  /\ slots + Cardinality(OrdinaryHolders) = MaxInFlight
  /\ assessing + Cardinality(AssessmentHolders) = AssessmentSlots
  /\ plans \in [PlanKey -> {"none", "plan"}]

\* One member more or less in a finite set.
LEMMA OneMore ==
  ASSUME NEW S, IsFiniteSet(S), NEW e, NEW T, T = S \cup {e} \/ T = S \ {e} \/ T = S
  PROVE  /\ IsFiniteSet(T) /\ Cardinality(T) \in Nat /\ Cardinality(S) \in Nat
         /\ Cardinality(T) = Cardinality(S) + (IF e \in T THEN 1 ELSE 0) - (IF e \in S THEN 1 ELSE 0)
<1>1. IsFiniteSet(T) /\ Cardinality(S) \in Nat
  <2>1. IsFiniteSet(S \cup {e}) /\ IsFiniteSet(S \ {e})
    BY FS_AddElement, FS_RemoveElement
  <2> QED
    BY <2>1, FS_CardinalityType
<1>2. Cardinality(T) \in Nat
  BY <1>1, FS_CardinalityType
<1>3. CASE T = S \cup {e}
  BY <1>1, <1>2, <1>3, FS_AddElement
<1>4. CASE T = S \ {e}
  BY <1>1, <1>2, <1>4, FS_RemoveElement
<1>5. CASE T = S
  BY <1>1, <1>5
<1> QED
  BY <1>1, <1>2, <1>3, <1>4, <1>5

\* A step of one exchange that accounts for its permits.
LEMMA ExchangeSteps ==
  ASSUME FrontInv, NEW e \in Exchange, NEW y, ex' = [ex EXCEPT ![e] = y], ExchangeOK(e, y),
         UNCHANGED aria, plans' \in [PlanKey -> {"none", "plan"}],
         slots' = slots + Ordinary(ex[e]) - Ordinary(y),
         assessing' = assessing + Assessing(ex[e]) - Assessing(y)
  PROVE  FrontInv'
<1>1. ex' \in [Exchange -> Served] /\ ex'[e] = y /\ \A d \in Exchange \ {e}: ex'[d] = ex[d]
  BY DEF FrontInv, ExchangeOK
<1>2. ASSUME NEW d \in Exchange PROVE ExchangeOK(d, ex[d])'
  <2>1. CASE d = e
    BY <2>1, <1>1 DEF ExchangeOK, HoldsOK, AskedOK, ChecksOK, RouteOK, Watched, FailureRefuses, Allowed
  <2>2. CASE d # e
    <3>1. ExchangeOK(d, ex[d]) /\ ex'[d] = ex[d]
      BY <2>2, <1>1 DEF FrontInv
    <3> QED
      BY <3>1 DEF ExchangeOK, HoldsOK, AskedOK, ChecksOK, RouteOK, Watched, FailureRefuses, Allowed
  <2> QED
    BY <2>1, <2>2
<1>3. IsFiniteSet(OrdinaryHolders) /\ IsFiniteSet(AssessmentHolders)
  BY FrontAssumption, FS_Subset DEF OrdinaryHolders, AssessmentHolders
<1>4. /\ OrdinaryHolders' \in {OrdinaryHolders \cup {e}, OrdinaryHolders \ {e}, OrdinaryHolders}
      /\ e \in OrdinaryHolders' <=> y.held = 1 /\ y.via # "assess"
      /\ e \in OrdinaryHolders <=> ex[e].held = 1 /\ ex[e].via # "assess"
  BY <1>1 DEF OrdinaryHolders
<1>5. /\ AssessmentHolders' \in {AssessmentHolders \cup {e}, AssessmentHolders \ {e}, AssessmentHolders}
      /\ e \in AssessmentHolders' <=> y.held = 1 /\ y.via = "assess"
      /\ e \in AssessmentHolders <=> ex[e].held = 1 /\ ex[e].via = "assess"
  BY <1>1 DEF AssessmentHolders
<1>6. /\ Cardinality(OrdinaryHolders') = Cardinality(OrdinaryHolders) + Ordinary(y) - Ordinary(ex[e])
      /\ Cardinality(OrdinaryHolders') \in Nat /\ Cardinality(OrdinaryHolders) \in Nat
  BY <1>3, <1>4, OneMore DEF Ordinary
<1>7. /\ Cardinality(AssessmentHolders') = Cardinality(AssessmentHolders) + Assessing(y) - Assessing(ex[e])
      /\ Cardinality(AssessmentHolders') \in Nat /\ Cardinality(AssessmentHolders) \in Nat
  BY <1>3, <1>5, OneMore DEF Assessing
<1>8. Ordinary(y) \in 0..1 /\ Ordinary(ex[e]) \in 0..1 /\ Assessing(y) \in 0..1 /\ Assessing(ex[e]) \in 0..1
  BY DEF Ordinary, Assessing
<1>9. slots' \in Int /\ slots' + Cardinality(OrdinaryHolders') = MaxInFlight
  BY <1>6, <1>8, FrontAssumption DEF FrontInv
<1>10. assessing' \in Int /\ assessing' + Cardinality(AssessmentHolders') = AssessmentSlots
  BY <1>7, <1>8, FrontAssumption DEF FrontInv
<1> QED
  BY <1>1, <1>2, <1>9, <1>10 DEF FrontInv

LEMMA ExchangeFields ==
  ASSUME FrontInv, NEW e \in Exchange
  PROVE  ExchangeOK(e, ex[e]) /\ ex[e] \in Served /\ slots \in Int /\ assessing \in Int
         /\ ex[e].held \in {0, 1} /\ ex[e].checks \in [Phase -> {0, 1}]
<1>1. ExchangeOK(e, ex[e]) /\ ex[e] \in Served /\ slots \in Int /\ assessing \in Int
  BY DEF FrontInv
<1>2. \A x \in Served: x.held \in {0, 1} /\ x.checks \in [Phase -> {0, 1}]
  BY DEF Served
<1> QED
  BY <1>1, <1>2

LEMMA NewIsServed == New \in Served /\ New.held = 0 /\ ~New.own /\ New.route = "none" /\ ~New.marked
                     /\ New.checks = [p \in Phase |-> 0] /\ New.sent.most = 0
  BY DEF New, Served, Sendings, BodyKinds, Verdict, Final

\* The fields of an exchange can be set one by one.
LEMMA Edits ==
  ASSUME NEW x \in Served
  PROVE  /\ \A v \in {"new", "guard", "reading", "asking", "enter", "complete", "run", "tell"} \cup Final:
              [x EXCEPT !.at = v] \in Served
         /\ \A v \in Governed \cup {"internal", "assess", "none"}: [x EXCEPT !.via = v] \in Served
         /\ \A v \in {"none", "error", "orchestrated", "explicit"}: [x EXCEPT !.route = v] \in Served
         /\ \A v \in BOOLEAN: [x EXCEPT !.own = v] \in Served
         /\ \A v \in PlanKey \cup {NoKey}: [x EXCEPT !.plan = v] \in Served
         /\ \A v \in BOOLEAN: [x EXCEPT !.marked = v] \in Served
         /\ \A v \in {0, 1}: [x EXCEPT !.held = v] \in Served
         /\ \A v \in Verdict: [x EXCEPT !.asked = v] \in Served /\ [x EXCEPT !.told = v] \in Served
         /\ \A v \in [Phase -> {0, 1}]: [x EXCEPT !.checks = v] \in Served
  BY DEF Served

LEMMA EditOfSent ==
  ASSUME NEW x \in Served, NEW v \in Sendings
  PROVE  [x EXCEPT !.sent = v] \in Served
  BY DEF Served

LEMMA EditOfBody ==
  ASSUME NEW x \in Served, NEW v \in BodyKinds
  PROVE  [x EXCEPT !.body = v] \in Served
  BY DEF Served

\* What is left of an exchange that ended.
LEMMA EndedIs ==
  ASSUME NEW x \in Served, NEW at \in Final
  PROVE  /\ Ended(x, at) \in Served /\ Ended(x, at).at = at /\ Ended(x, at).via = x.via
         /\ Ended(x, at).held = 0 /\ ~Ended(x, at).own /\ Ended(x, at).route = "none"
         /\ ~Ended(x, at).marked /\ Ended(x, at).checks = x.checks
         /\ Ended(x, at).asked = x.asked /\ Ended(x, at).told = x.told
<1>1. /\ x.via \in Governed \cup {"internal", "assess", "none"} /\ x.asked \in Verdict
      /\ x.told \in Verdict /\ x.checks \in [Phase -> {0, 1}]
  BY DEF Served
<1> DEFINE y1 == [New EXCEPT !.at = at]
           y2 == [y1 EXCEPT !.via = x.via]
           y3 == [y2 EXCEPT !.checks = x.checks]
           y4 == [y3 EXCEPT !.asked = x.asked]
           y5 == [y4 EXCEPT !.told = x.told]
<1>2. y1 \in Served
  BY NewIsServed, Edits
<1>3. y2 \in Served
  <2> HIDE DEF y1
  <2> QED  BY <1>1, <1>2, Edits
<1>4. y3 \in Served
  <2> HIDE DEF y2
  <2> QED  BY <1>1, <1>3, Edits
<1>5. y4 \in Served
  <2> HIDE DEF y3
  <2> QED  BY <1>1, <1>4, Edits
<1>6. y5 \in Served
  <2> HIDE DEF y4
  <2> QED  BY <1>1, <1>5, Edits
<1>7. Ended(x, at) = y5
  BY DEF Ended
<1>8. /\ Ended(x, at).at = at /\ Ended(x, at).via = x.via
      /\ Ended(x, at).held = 0 /\ ~Ended(x, at).own /\ Ended(x, at).route = "none"
      /\ ~Ended(x, at).marked /\ Ended(x, at).checks = x.checks
      /\ Ended(x, at).asked = x.asked /\ Ended(x, at).told = x.told
  BY DEF Ended, New
<1> QED
  BY <1>6, <1>7, <1>8

\* An exchange that ends gives its permit back.
LEMMA LeaveKeepsFront ==
  ASSUME FrontInv, NEW e \in Exchange, NEW at \in Final, Leave(e, at), UNCHANGED <<aria, plans>>, ex[e].at # "new",
         at = "delivered" /\ FailureRefuses => ex[e].via = "assess"
  PROVE  FrontInv'
<1> DEFINE y == Ended(ex[e], at)
<1>1. ExchangeOK(e, ex[e]) /\ ex[e] \in Served /\ slots \in Int /\ assessing \in Int /\ ex[e].held \in {0, 1}
  BY ExchangeFields
<1>2. /\ y \in Served /\ y.at = at /\ y.via = ex[e].via /\ y.held = 0 /\ ~y.own /\ y.route = "none"
      /\ ~y.marked /\ y.checks = ex[e].checks /\ y.asked = ex[e].asked /\ y.told = ex[e].told
  BY <1>1, EndedIs
<1>3. ex' = [ex EXCEPT ![e] = y]
  BY DEF Leave
<1> HIDE DEF y
<1>4. HoldsOK(y) /\ ChecksOK(y) /\ RouteOK(y)
  BY <1>1, <1>2 DEF ExchangeOK, HoldsOK, ChecksOK, RouteOK, Final
<1>5. AskedOK(e, y)
  BY <1>1, <1>2 DEF ExchangeOK, AskedOK, Final
<1>6. /\ slots' = slots + Ordinary(ex[e]) - Ordinary(y)
      /\ assessing' = assessing + Assessing(ex[e]) - Assessing(y)
  BY <1>1, <1>2 DEF Leave, Ordinary, Assessing
<1>7. plans' \in [PlanKey -> {"none", "plan"}]
  BY DEF FrontInv
<1> QED
  BY <1>2, <1>3, <1>4, <1>5, <1>6, <1>7, ExchangeSteps DEF ExchangeOK

\* An exchange that goes on with the permits it has.
LEMMA GoesOn ==
  ASSUME FrontInv, NEW e \in Exchange, NEW y, ex' = [ex EXCEPT ![e] = y], ExchangeOK(e, y),
         UNCHANGED <<aria, slots, assessing>>, plans' \in [PlanKey -> {"none", "plan"}],
         y.held = ex[e].held, y.via = ex[e].via
  PROVE  FrontInv'
<1>1. slots \in Int /\ assessing \in Int
  BY DEF FrontInv
<1>2. Ordinary(y) = Ordinary(ex[e]) /\ Assessing(y) = Assessing(ex[e])
  BY DEF Ordinary, Assessing
<1>3. Ordinary(y) \in Int /\ Assessing(y) \in Int
  BY DEF Ordinary, Assessing
<1> HIDE DEF Ordinary, Assessing
<1>4. slots' = slots + Ordinary(ex[e]) - Ordinary(y) /\ assessing' = assessing + Assessing(ex[e]) - Assessing(y)
  BY <1>1, <1>2, <1>3
<1> QED
  BY <1>4, ExchangeSteps

LEMMA PlansKept == ASSUME FrontInv, UNCHANGED plans PROVE plans' \in [PlanKey -> {"none", "plan"}]
  BY DEF FrontInv

\* resolve_openai_route finds some route, and one for "auto".
LEMMA RoutesResolve ==
  /\ \A s \in Shape: ResolveRoute(s) \in {"error", "orchestrated", "explicit"}
  /\ ResolveRoute("auto") = "orchestrated"
  BY DEF ResolveRoute, Shape, ProfileOf, OneProvider, Inferred

LEMMA ArriveKeepsFront ==
  ASSUME FrontInv, NEW e \in Exchange, Arrive(e)
  PROVE  FrontInv'
<1>1. PICK via \in Vias: Asks(e, via)
  BY DEF Arrive
<1>2. PICK s \in Shape, own \in BOOLEAN, k \in PlanKey \cup {NoKey}:
        /\ via \notin {"chat", "responses"} => s = "auto" /\ ~own /\ k = NoKey
        /\ ex' = [ex EXCEPT ![e] = [New EXCEPT
             !.at = IF via \in Governed THEN "guard" ELSE "enter", !.via = via,
             !.route = ResolveRoute(s), !.own = own, !.plan = k]]
  BY <1>1 DEF Asks
<1> DEFINE y == [New EXCEPT !.at = IF via \in Governed THEN "guard" ELSE "enter", !.via = via,
                            !.route = ResolveRoute(s), !.own = own, !.plan = k]
<1>5. via \in Governed \cup {"internal", "assess"}
  BY <1>1, FrontAssumption DEF Governed
<1>6. ResolveRoute(s) \in {"error", "orchestrated", "explicit"}
      /\ (ResolveRoute(s) = "error" => via \in {"chat", "responses"})
  BY <1>2, RoutesResolve
<1>7. y \in Served
  <2> DEFINE y1 == [New EXCEPT !.at = IF via \in Governed THEN "guard" ELSE "enter"]
             y2 == [y1 EXCEPT !.via = via]
             y3 == [y2 EXCEPT !.route = ResolveRoute(s)]
             y4 == [y3 EXCEPT !.own = own]
             y5 == [y4 EXCEPT !.plan = k]
  <2>1. y = y5
    OBVIOUS
  <2>2. y1 \in Served
    BY NewIsServed, Edits
  <2>3. y2 \in Served
    <3> HIDE DEF y1
    <3> QED  BY <2>2, <1>5, Edits
  <2>4. y3 \in Served
    <3> HIDE DEF y2
    <3> QED  BY <2>3, <1>6, Edits
  <2>5. y4 \in Served
    <3> HIDE DEF y3
    <3> QED  BY <2>4, Edits
  <2>6. y5 \in Served
    <3> HIDE DEF y4
    <3> QED  BY <2>5, Edits
  <2> QED
    BY <2>1, <2>6
<1>8. y.held = 0 /\ y.via = via /\ ~y.marked /\ y.checks["request"] = 0 /\ y.checks["response"] = 0
      /\ y.at \in {"guard", "enter"} /\ (y.at = "guard" <=> via \in Governed) /\ y.sent.most = 0
      /\ (y.own => via \in {"chat", "responses"}) /\ (y.route = "error" => via \in {"chat", "responses"})
  <2>1. /\ y.held = 0 /\ y.via = via /\ ~y.marked /\ y.checks = [p \in Phase |-> 0] /\ y.sent.most = 0
        /\ y.own = own /\ y.route = ResolveRoute(s)
        /\ y.at = IF via \in Governed THEN "guard" ELSE "enter"
    BY DEF New
  <2> HIDE DEF y
  <2> QED
    BY <2>1, <1>2, <1>6 DEF Phase
<1>9. ex' = [ex EXCEPT ![e] = y]
  BY <1>2
<1> HIDE DEF y
<1>10. HoldsOK(y) /\ AskedOK(e, y) /\ ChecksOK(y) /\ RouteOK(y)
  BY <1>5, <1>8 DEF HoldsOK, AskedOK, ChecksOK, RouteOK, Final, Governed
<1>11. ex[e].held = 0 /\ slots \in Int /\ assessing \in Int
  BY ExchangeFields DEF Arrive, ExchangeOK, HoldsOK
<1>12. slots' = slots + Ordinary(ex[e]) - Ordinary(y) /\ assessing' = assessing + Assessing(ex[e]) - Assessing(y)
  BY <1>8, <1>11 DEF Ordinary, Assessing, Arrive
<1> QED
  BY <1>7, <1>9, <1>10, <1>12, ExchangeSteps, PlansKept DEF ExchangeOK, Arrive

\* The fields an exchange has when only some of them were set.
LEMMA OnlyAt ==
  ASSUME NEW x \in Served, NEW at \in {"new", "guard", "reading", "asking", "enter", "complete", "run", "tell"} \cup Final,
         NEW y, y = [x EXCEPT !.at = at]
  PROVE  /\ y \in Served /\ y.at = at /\ y.via = x.via /\ y.route = x.route /\ y.own = x.own
         /\ y.sent = x.sent /\ y.marked = x.marked /\ y.held = x.held /\ y.asked = x.asked
         /\ y.told = x.told /\ y.checks = x.checks
<1>1. y \in Served
  BY Edits
<1> QED
  BY <1>1 DEF Served

LEMMA AtAndHeld ==
  ASSUME NEW x \in Served, NEW at \in {"reading", "asking", "complete"},
         NEW y, y = [x EXCEPT !.at = at, !.held = 1]
  PROVE  /\ y \in Served /\ y.at = at /\ y.via = x.via /\ y.route = x.route /\ y.own = x.own
         /\ y.sent = x.sent /\ y.marked = x.marked /\ y.held = 1 /\ y.asked = x.asked
         /\ y.told = x.told /\ y.checks = x.checks
<1> DEFINE y1 == [x EXCEPT !.at = at]
<1>1. y1 \in Served
  BY Edits
<1>2. y = [y1 EXCEPT !.held = 1]
  OBVIOUS
<1> HIDE DEF y1
<1>3. y \in Served
  BY <1>1, <1>2, Edits
<1> QED
  BY <1>3 DEF Served

WithBody(x, at, body) == [x EXCEPT !.at = at, !.body = body]

LEMMA AtAndBody ==
  ASSUME NEW x \in Served, NEW at \in {"run", "tell"}, NEW body \in BodyKinds
  PROVE  LET y == WithBody(x, at, body)
         IN  /\ y \in Served /\ y.at = at /\ y.via = x.via /\ y.route = x.route /\ y.own = x.own
             /\ y.sent = x.sent /\ y.marked = x.marked /\ y.held = x.held /\ y.asked = x.asked
             /\ y.told = x.told /\ y.checks = x.checks
<1> DEFINE y == WithBody(x, at, body)
           y1 == [x EXCEPT !.at = at]
<1>1. y1 \in Served
  BY Edits
<1>2. y = [y1 EXCEPT !.body = body]
  BY DEF WithBody
<1> HIDE DEF y1
<1>3. y \in Served
  BY <1>1, <1>2, EditOfBody
<1> QED
  BY <1>3 DEF Served, WithBody

SentOn(x, sent) == [x EXCEPT !.at = "run", !.sent = sent]
HeldAndSent(x, sent) == [x EXCEPT !.at = "asking", !.held = 1, !.sent = sent]

LEMMA AtAndSent ==
  ASSUME NEW x \in Served, NEW sent \in Sendings
  PROVE  LET y == SentOn(x, sent)
         IN  /\ y \in Served /\ y.at = "run" /\ y.via = x.via /\ y.route = x.route /\ y.own = x.own
             /\ y.sent = sent /\ y.marked = x.marked /\ y.held = x.held /\ y.asked = x.asked
             /\ y.told = x.told /\ y.checks = x.checks
<1> DEFINE y == SentOn(x, sent)
           y1 == [x EXCEPT !.at = "run"]
<1>1. y1 \in Served
  BY Edits
<1>2. y = [y1 EXCEPT !.sent = sent]
  BY DEF SentOn
<1> HIDE DEF y1
<1>3. y \in Served
  BY <1>1, <1>2, EditOfSent
<1> QED
  BY <1>3 DEF Served, SentOn

LEMMA AtHeldAndSent ==
  ASSUME NEW x \in Served, NEW sent \in Sendings
  PROVE  LET y == HeldAndSent(x, sent)
         IN  /\ y \in Served /\ y.at = "asking" /\ y.via = x.via /\ y.route = x.route /\ y.own = x.own
             /\ y.sent = sent /\ y.marked = x.marked /\ y.held = 1 /\ y.asked = x.asked
             /\ y.told = x.told /\ y.checks = x.checks
<1> DEFINE y == HeldAndSent(x, sent)
           y1 == [x EXCEPT !.at = "asking"]
           y2 == [y1 EXCEPT !.held = 1]
<1>1. y1 \in Served
  BY Edits
<1>2. y = [y2 EXCEPT !.sent = sent]
  BY DEF HeldAndSent
<1>3. y2 \in Served
  <2> HIDE DEF y1
  <2> QED  BY <1>1, Edits
<1> HIDE DEF y2
<1>4. y \in Served
  BY <1>2, <1>3, EditOfSent
<1> QED
  BY <1>4 DEF Served, HeldAndSent

\* The guard lets an exchange in with a permit, or not at all.
LEMMA GuardKeepsFront ==
  ASSUME FrontInv, NEW e \in Exchange, Guard(e)
  PROVE  FrontInv'
<1> DEFINE x == ex[e]
<1>1. ExchangeOK(e, x) /\ x \in Served /\ slots \in Int /\ assessing \in Int
      /\ x.held = 0 /\ x.via \in Governed /\ x.at = "guard"
  BY ExchangeFields DEF ExchangeOK, HoldsOK, Guard
<1>2. ex \in [Exchange -> Served] /\ plans' \in [PlanKey -> {"none", "plan"}] /\ aria' = aria /\ assessing' = assessing
  BY DEF FrontInv, Guard
<1>3. ASSUME NEW at \in {"enter", "refused"}, Go1(e, at), UNCHANGED slots, at = "enter" => ~Watched
      PROVE  FrontInv'
  <2> DEFINE y == [x EXCEPT !.at = at]
  <2>1. /\ y \in Served /\ y.at = at /\ y.via = x.via /\ y.route = x.route /\ y.own = x.own
        /\ y.sent = x.sent /\ y.marked = x.marked /\ y.held = x.held /\ y.asked = x.asked
        /\ y.told = x.told /\ y.checks = x.checks
    BY <1>1, OnlyAt DEF Final
  <2>2. ex' = [ex EXCEPT ![e] = y]
    BY <1>2, <1>3 DEF Go1
  <2> HIDE DEF y
  <2>3. HoldsOK(y) /\ AskedOK(e, y) /\ ChecksOK(y) /\ RouteOK(y)
    BY <1>1, <1>3, <2>1 DEF ExchangeOK, HoldsOK, AskedOK, ChecksOK, RouteOK, Final, Watched, FailureRefuses
  <2> QED
    BY <1>2, <1>3, <2>1, <2>2, <2>3, GoesOn DEF ExchangeOK
<1>4. CASE slots' = slots - 1 /\ ex' = [ex EXCEPT ![e].at = "reading", ![e].held = 1]
  <2> DEFINE y == [x EXCEPT !.at = "reading", !.held = 1]
  <2>1. /\ y \in Served /\ y.at = "reading" /\ y.via = x.via /\ y.route = x.route /\ y.own = x.own
        /\ y.sent = x.sent /\ y.marked = x.marked /\ y.held = 1 /\ y.asked = x.asked
        /\ y.told = x.told /\ y.checks = x.checks
    BY <1>1, AtAndHeld, ZenonT(60)
  <2>2. ex' = [ex EXCEPT ![e] = y]
    BY <1>2, <1>4
  <2> HIDE DEF y
  <2>3. HoldsOK(y) /\ AskedOK(e, y) /\ ChecksOK(y) /\ RouteOK(y)
    BY <1>1, <2>1 DEF ExchangeOK, HoldsOK, AskedOK, ChecksOK, RouteOK, Final, Governed
  <2>4. slots' = slots + Ordinary(x) - Ordinary(y) /\ assessing' = assessing + Assessing(x) - Assessing(y)
    BY <1>1, <1>2, <1>4, <2>1 DEF Ordinary, Assessing, Governed
  <2> QED
    BY <1>2, <2>1, <2>2, <2>3, <2>4, ExchangeSteps DEF ExchangeOK
<1> QED
  BY <1>3, <1>4 DEF Guard, Watched

LEMMA ReadBodyKeepsFront ==
  ASSUME FrontInv, NEW e \in Exchange, ReadBody(e)
  PROVE  FrontInv'
<1> DEFINE x == ex[e]
<1>1. ExchangeOK(e, x) /\ x \in Served /\ x.at = "reading"
  BY ExchangeFields DEF ReadBody
<1>2. ex \in [Exchange -> Served] /\ plans' \in [PlanKey -> {"none", "plan"}] /\ aria' = aria
  BY DEF FrontInv, ReadBody
<1>3. CASE Go1(e, "asking") /\ UNCHANGED <<slots, assessing>>
  <2> DEFINE y == [x EXCEPT !.at = "asking"]
  <2>1. /\ y \in Served /\ y.at = "asking" /\ y.via = x.via /\ y.route = x.route /\ y.own = x.own
        /\ y.sent = x.sent /\ y.marked = x.marked /\ y.held = x.held /\ y.asked = x.asked
        /\ y.told = x.told /\ y.checks = x.checks
    BY <1>1, OnlyAt
  <2>2. ex' = [ex EXCEPT ![e] = y]
    BY <1>2, <1>3 DEF Go1
  <2> HIDE DEF y
  <2>3. HoldsOK(y) /\ AskedOK(e, y) /\ ChecksOK(y) /\ RouteOK(y)
    BY <1>1, <2>1 DEF ExchangeOK, HoldsOK, AskedOK, ChecksOK, RouteOK, Final
  <2> QED
    BY <1>2, <1>3, <2>1, <2>2, <2>3, GoesOn DEF ExchangeOK
<1>4. CASE Leave(e, "refused")
  BY <1>4, LeaveKeepsFront DEF ReadBody, Final
<1> QED
  BY <1>3, <1>4 DEF ReadBody

LEMMA DisconnectKeepsFront ==
  ASSUME FrontInv, NEW e \in Exchange, Disconnect(e)
  PROVE  FrontInv'
  BY LeaveKeepsFront DEF Disconnect, Final

\* The form is read, the route is resolved, or an assessment takes its permit.
LEMMA EnterKeepsFront ==
  ASSUME FrontInv, NEW e \in Exchange, Enter(e)
  PROVE  FrontInv'
<1> DEFINE x == ex[e]
<1>1. ExchangeOK(e, x) /\ x \in Served /\ slots \in Int /\ assessing \in Int /\ x.at = "enter"
  BY ExchangeFields DEF Enter
<1>2. ex \in [Exchange -> Served] /\ plans' \in [PlanKey -> {"none", "plan"}] /\ aria' = aria
  BY DEF FrontInv, Enter
<1>3. ASSUME NEW at \in {"run", "tell"}, x.via \in Governed, ex' = [ex EXCEPT ![e].at = at, ![e].body = "error"],
             UNCHANGED <<slots, assessing>>
      PROVE  FrontInv'
  <2> DEFINE y == WithBody(x, at, "error")
  <2>1. /\ y \in Served /\ y.at = at /\ y.via = x.via /\ y.route = x.route /\ y.own = x.own
        /\ y.sent = x.sent /\ y.marked = x.marked /\ y.held = x.held /\ y.asked = x.asked
        /\ y.told = x.told /\ y.checks = x.checks
    <3>1. "error" \in BodyKinds
      BY DEF BodyKinds
    <3> HIDE DEF x
    <3> QED
      BY <1>1, <3>1, AtAndBody
  <2>2. ex' = [ex EXCEPT ![e] = y]
    BY <1>2, <1>3 DEF WithBody
  <2> HIDE DEF y
  <2>3. HoldsOK(y) /\ AskedOK(e, y) /\ ChecksOK(y) /\ RouteOK(y)
    BY <1>1, <1>3, <2>1 DEF ExchangeOK, HoldsOK, AskedOK, ChecksOK, RouteOK, Final, Watched, FailureRefuses
  <2> QED
    BY <1>2, <1>3, <2>1, <2>2, <2>3, GoesOn DEF ExchangeOK
<1>4. ASSUME NEW at \in {"refused", "complete"}, Go1(e, at), UNCHANGED <<slots, assessing>>,
             at = "refused" => x.via = "assess", at = "complete" => x.via # "assess" /\ x.via # "none"
      PROVE  FrontInv'
  <2> DEFINE y == [x EXCEPT !.at = at]
  <2>1. /\ y \in Served /\ y.at = at /\ y.via = x.via /\ y.route = x.route /\ y.own = x.own
        /\ y.sent = x.sent /\ y.marked = x.marked /\ y.held = x.held /\ y.asked = x.asked
        /\ y.told = x.told /\ y.checks = x.checks
    BY <1>1, <1>4, OnlyAt DEF Final
  <2>2. ex' = [ex EXCEPT ![e] = y]
    BY <1>2, <1>4 DEF Go1
  <2> HIDE DEF y
  <2>3. x.via \in Governed \cup {"internal", "assess", "none"} /\ "assess" \notin Governed
    BY <1>1 DEF Served, Governed
  <2>4. HoldsOK(y) /\ AskedOK(e, y) /\ ChecksOK(y) /\ RouteOK(y)
    BY <1>1, <1>4, <2>1, <2>3 DEF ExchangeOK, HoldsOK, AskedOK, ChecksOK, RouteOK, Final
  <2> QED
    BY <1>2, <1>4, <2>1, <2>2, <2>4, GoesOn DEF ExchangeOK
<1>5. CASE /\ x.via = "assess" /\ UNCHANGED slots /\ assessing > 0 /\ assessing' = assessing - 1
           /\ ex' = [ex EXCEPT ![e].held = 1, ![e].at = "complete"]
  <2> DEFINE y == [x EXCEPT !.at = "complete", !.held = 1]
  <2>1. /\ y \in Served /\ y.at = "complete" /\ y.via = x.via /\ y.route = x.route /\ y.own = x.own
        /\ y.sent = x.sent /\ y.marked = x.marked /\ y.held = 1 /\ y.asked = x.asked
        /\ y.told = x.told /\ y.checks = x.checks
    BY <1>1, AtAndHeld, ZenonT(60)
  <2>2. ex' = [ex EXCEPT ![e] = y]
    BY <1>2, <1>5
  <2> HIDE DEF y
  <2>3. "assess" \notin Governed
    BY DEF Governed
  <2>4. HoldsOK(y) /\ AskedOK(e, y) /\ ChecksOK(y) /\ RouteOK(y) /\ x.held = 0
    BY <1>1, <1>5, <2>1, <2>3 DEF ExchangeOK, HoldsOK, AskedOK, ChecksOK, RouteOK, Final
  <2>5. slots' = slots + Ordinary(x) - Ordinary(y) /\ assessing' = assessing + Assessing(x) - Assessing(y)
    BY <1>1, <1>5, <2>1, <2>4 DEF Ordinary, Assessing
  <2> QED
    BY <1>2, <2>1, <2>2, <2>4, <2>5, ExchangeSteps DEF ExchangeOK
<1> QED
  <2>1. CASE x.via \in {"audio", "transcribe"}
    <3>1. PICK at \in {"run", "refused"}: /\ UNCHANGED <<slots, assessing>>
             /\ ex' = [ex EXCEPT ![e].at = IF at = "run" THEN at ELSE "tell", ![e].body = "error"]
      BY <2>1 DEF Enter, AudioForm, UploadForm
    <3>2. (IF at = "run" THEN at ELSE "tell") \in {"run", "tell"}
      OBVIOUS
    <3> QED
      BY <2>1, <3>1, <3>2, <1>3 DEF Governed
  <2>2. CASE x.via = "assess"
    <3>1. x.route # "error"
      BY <1>1, <2>2 DEF ExchangeOK, RouteOK
    <3>2. \/ Go1(e, "refused") /\ UNCHANGED <<slots, assessing>>
          \/ /\ UNCHANGED slots /\ assessing > 0 /\ assessing' = assessing - 1
             /\ ex' = [ex EXCEPT ![e].held = 1, ![e].at = "complete"]
      BY <2>2, <3>1 DEF Enter
    <3> QED
      BY <2>2, <3>2, <1>4, <1>5
  <2>3. CASE x.via \notin {"audio", "transcribe", "assess"} /\ x.route = "error"
    <3>1. x.via \in Governed
      BY <1>1, <2>3 DEF ExchangeOK, RouteOK, Governed
    <3> QED
      BY <2>3, <3>1, <1>3 DEF Enter
  <2>4. CASE x.via \notin {"audio", "transcribe", "assess"} /\ x.route # "error"
    <3>1. Go1(e, "complete") /\ UNCHANGED <<slots, assessing>>
      BY <2>4 DEF Enter
    <3>2. x.via # "none"
      BY <1>1 DEF ExchangeOK, HoldsOK
    <3> QED
      BY <2>4, <3>1, <3>2, <1>4
  <2> QED
    BY <2>1, <2>2, <2>3, <2>4

\* The operation is sent to the named provider alone when the caller brought an
\* endpoint for it, and is checked here unless the guard has done it.
LEMMA CompleteKeepsFront ==
  ASSUME FrontInv, NEW e \in Exchange, Complete(e)
  PROVE  FrontInv'
<1> DEFINE x == ex[e]
           sent == CASE ex[e].via \in {"chat", "internal"} -> DispatchChat(ex[e].route, ex[e].own)
                     [] ex[e].via = "responses" -> DispatchResponses(ex[e].route, ex[e].own)
                     [] ex[e].via = "direct" -> DirectRequest
                     [] OTHER -> CompletionRequest("orchestrated", FALSE)
<1>1. ExchangeOK(e, x) /\ x \in Served /\ slots \in Int /\ assessing \in Int /\ x.at = "complete"
  BY ExchangeFields DEF Complete
<1>2. ex \in [Exchange -> Served] /\ plans' \in [PlanKey -> {"none", "plan"}]
      /\ aria' = aria /\ assessing' = assessing
  BY DEF FrontInv, Complete
<1>3. \A route: \A own \in BOOLEAN:
        /\ CompletionRequest(route, own) \in Sendings /\ DirectRequest \in Sendings
        /\ DispatchChat(route, own) \in Sendings /\ DispatchResponses(route, own) \in Sendings
  BY DEF CompletionRequest, DirectRequest, DispatchChat, DispatchResponses, Sendings
<1>4. x.own \in BOOLEAN
  BY <1>1 DEF Served
<1>5. sent \in Sendings
  BY <1>3, <1>4
<1>6. x.own /\ x.route = "explicit" => sent.most = 1 /\ ~sent.configured
  BY <1>1 DEF ExchangeOK, RouteOK, DispatchChat, DispatchResponses, DirectRequest
<1>7. \/ ~ChecksCompletion(e) /\ ex' = [ex EXCEPT ![e].at = "run", ![e].sent = sent] /\ UNCHANGED slots
      \/ ChecksCompletion(e) /\ slots = 0 /\ Go1(e, "refused") /\ UNCHANGED slots
      \/ ChecksCompletion(e) /\ slots' = slots - 1
         /\ ex' = [ex EXCEPT ![e].at = "asking", ![e].held = 1, ![e].sent = sent]
  BY DEF Complete
<1> HIDE DEF sent
<1>8. "assess" \notin Governed
  BY DEF Governed
<1>9. ChecksCompletion(e) => x.via = "internal" /\ x.held = 0 /\ ~x.marked
  BY <1>1 DEF ChecksCompletion, ExchangeOK, HoldsOK, Watched
<1>10. CASE ~ChecksCompletion(e) /\ ex' = [ex EXCEPT ![e].at = "run", ![e].sent = sent] /\ UNCHANGED slots
  <2> DEFINE y == SentOn(x, sent)
  <2>1. /\ y \in Served /\ y.at = "run" /\ y.via = x.via /\ y.route = x.route /\ y.own = x.own
        /\ y.sent = sent /\ y.marked = x.marked /\ y.held = x.held /\ y.asked = x.asked
        /\ y.told = x.told /\ y.checks = x.checks
    BY <1>1, <1>5, AtAndSent
  <2>2. ex' = [ex EXCEPT ![e] = y]
    BY <1>2, <1>10 DEF SentOn
  <2> HIDE DEF y
  <2>3. x.via = "assess" \/ ~Watched \/ x.marked
    BY <1>10 DEF ChecksCompletion, Watched
  <2>4. FailureRefuses => Watched
    BY DEF FailureRefuses, Watched
  <2>5. HoldsOK(y) /\ AskedOK(e, y) /\ ChecksOK(y) /\ RouteOK(y)
    BY <1>1, <1>6, <1>8, <2>1, <2>3, <2>4 DEF ExchangeOK, HoldsOK, AskedOK, ChecksOK, RouteOK, Final
  <2> QED
    BY <1>2, <1>10, <2>1, <2>2, <2>5, GoesOn DEF ExchangeOK
<1>11. CASE ChecksCompletion(e) /\ Go1(e, "refused") /\ UNCHANGED slots
  <2> DEFINE y == [x EXCEPT !.at = "refused"]
  <2>1. /\ y \in Served /\ y.at = "refused" /\ y.via = x.via /\ y.route = x.route /\ y.own = x.own
        /\ y.sent = x.sent /\ y.marked = x.marked /\ y.held = x.held /\ y.asked = x.asked
        /\ y.told = x.told /\ y.checks = x.checks
    BY <1>1, OnlyAt DEF Final
  <2>2. ex' = [ex EXCEPT ![e] = y]
    BY <1>2, <1>11 DEF Go1
  <2> HIDE DEF y
  <2>3. HoldsOK(y) /\ AskedOK(e, y) /\ ChecksOK(y) /\ RouteOK(y)
    BY <1>1, <1>9, <1>11, <2>1 DEF ExchangeOK, HoldsOK, AskedOK, ChecksOK, RouteOK, Final
  <2> QED
    BY <1>2, <1>11, <2>1, <2>2, <2>3, GoesOn DEF ExchangeOK
<1>12. CASE /\ ChecksCompletion(e) /\ slots' = slots - 1
            /\ ex' = [ex EXCEPT ![e].at = "asking", ![e].held = 1, ![e].sent = sent]
  <2> DEFINE y == HeldAndSent(x, sent)
  <2>1. /\ y \in Served /\ y.at = "asking" /\ y.via = x.via /\ y.route = x.route /\ y.own = x.own
        /\ y.sent = sent /\ y.marked = x.marked /\ y.held = 1 /\ y.asked = x.asked
        /\ y.told = x.told /\ y.checks = x.checks
    BY <1>1, <1>5, AtHeldAndSent
  <2>2. ex' = [ex EXCEPT ![e] = y]
    BY <1>2, <1>12 DEF HeldAndSent
  <2> HIDE DEF y
  <2>3. HoldsOK(y) /\ AskedOK(e, y) /\ ChecksOK(y) /\ RouteOK(y)
    BY <1>1, <1>6, <1>9, <1>12, <2>1 DEF ExchangeOK, HoldsOK, AskedOK, ChecksOK, RouteOK, Final
  <2>4. slots' = slots + Ordinary(x) - Ordinary(y) /\ assessing' = assessing + Assessing(x) - Assessing(y)
    BY <1>1, <1>2, <1>9, <1>12, <2>1 DEF Ordinary, Assessing
  <2> QED
    BY <1>2, <2>1, <2>2, <2>3, <2>4, ExchangeSteps DEF ExchangeOK
<1> QED
  BY <1>7, <1>10, <1>11, <1>12

\* What the operation returned is answered; a plan of a provider's is kept.
LEMMA RunKeepsFront ==
  ASSUME FrontInv, NEW e \in Exchange, Run(e)
  PROVE  FrontInv'
<1> DEFINE x == ex[e]
<1>1. ExchangeOK(e, x) /\ x \in Served /\ x.at = "run"
  BY ExchangeFields DEF Run
<1>2. ex \in [Exchange -> Served] /\ plans \in [PlanKey -> {"none", "plan"}] /\ aria' = aria
      /\ x.plan \in PlanKey \cup {NoKey}
  BY <1>1 DEF FrontInv, Run, Served
<1>r. PICK r \in Results: \E b \in Bodies(e, r):
        /\ IF ex[e].via \in {"chat", "responses"} /\ Caches(e, r)
           THEN Stored(ex[e].plan, r) ELSE UNCHANGED plans
        /\ IF ex[e].via = "internal" /\ b = "error"
           THEN Leave(e, "refused")
           ELSE ex' = [ex EXCEPT ![e].at = "tell", ![e].body = b] /\ UNCHANGED <<slots, assessing>>
  BY DEF Run
<1>3. PICK b \in Bodies(e, r):
        /\ IF ex[e].via \in {"chat", "responses"} /\ Caches(e, r)
           THEN Stored(ex[e].plan, r) ELSE UNCHANGED plans
        /\ IF ex[e].via = "internal" /\ b = "error"
           THEN Leave(e, "refused")
           ELSE ex' = [ex EXCEPT ![e].at = "tell", ![e].body = b] /\ UNCHANGED <<slots, assessing>>
  BY <1>r
<1>4. b \in BodyKinds
  BY <1>2, <1>3 DEF Bodies, BodyKinds, Results, Classified, DegradedChat, DegradedResponses, Loaded
<1>5. plans' \in [PlanKey -> {"none", "plan"}]
  <2>1. CASE UNCHANGED plans
    BY <1>2, <2>1
  <2>2. CASE Stored(x.plan, r) /\ Caches(e, r)
    <3>1. x.plan \in PlanKey /\ r = "plan"
      BY <1>2, <2>2 DEF Caches
    <3>2. \/ plans' = [plans EXCEPT ![x.plan] = "plan"]
          \/ \E q \in PlanKey: plans' = [plans EXCEPT ![q] = "none", ![x.plan] = "plan"]
      BY <2>2, <3>1 DEF Stored
    <3> QED
      BY <1>2, <3>1, <3>2
  <2> QED
    BY <1>3, <2>1, <2>2
<1>6. CASE ex' = [ex EXCEPT ![e].at = "tell", ![e].body = b] /\ UNCHANGED <<slots, assessing>>
  <2> DEFINE y == WithBody(x, "tell", b)
  <2>1. /\ y \in Served /\ y.at = "tell" /\ y.via = x.via /\ y.route = x.route /\ y.own = x.own
        /\ y.sent = x.sent /\ y.marked = x.marked /\ y.held = x.held /\ y.asked = x.asked
        /\ y.told = x.told /\ y.checks = x.checks
    BY <1>1, <1>4, AtAndBody
  <2>2. ex' = [ex EXCEPT ![e] = y]
    BY <1>2, <1>6 DEF WithBody
  <2> HIDE DEF y
  <2>3. HoldsOK(y) /\ AskedOK(e, y) /\ ChecksOK(y) /\ RouteOK(y)
    BY <1>1, <2>1 DEF ExchangeOK, HoldsOK, AskedOK, ChecksOK, RouteOK, Final
  <2> QED
    BY <1>2, <1>5, <1>6, <2>1, <2>2, <2>3, GoesOn DEF ExchangeOK
<1>7. CASE x.via = "internal" /\ Leave(e, "refused")
  <2>1. ~Caches(e, r) \/ x.via \notin {"chat", "responses"}
    BY <1>7
  <2>2. UNCHANGED plans
    BY <1>3, <1>7
  <2> QED
    BY <1>1, <1>2, <1>7, <2>2, LeaveKeepsFront DEF Final
<1> QED
  BY <1>3, <1>6, <1>7

\* Governance::evaluate: a verdict that lets an enforcing guard pass is on this
\* request and this phase.
LEMMA VerdictsAreOnIt ==
  ASSUME NEW e \in Exchange, NEW phase \in Phase, NEW v \in Check(e, phase)
  PROVE  v \in Verdict /\ (Passes(v) /\ FailureRefuses => Allowed(e, v, phase))
<1>1. PICK reply \in Replies: v = Evaluate(e, phase, reply)
  BY DEF Check
<1>2. Unavailable \in Replies /\ Unavailable.action = "unavailable"
  BY DEF Replies, Unavailable, NoVerdict
<1>3. v \in Verdict /\ (v = Unavailable \/ (v.id = e /\ v.phase = phase))
  BY <1>1, <1>2 DEF Evaluate, Verdict
<1>4. FailureRefuses => aria.mode = "enforce"
  BY DEF FailureRefuses
<1>5. Passes(v) /\ FailureRefuses => v.action # "block" /\ v.action # "unavailable"
  BY <1>4 DEF Passes
<1> QED
  BY <1>2, <1>3, <1>5 DEF Allowed

Counted(c, p) == [c EXCEPT ![p] = @ + 1]

LEMMA CountedOnce ==
  ASSUME NEW c \in [Phase -> {0, 1}], NEW p \in Phase, c[p] = 0
  PROVE  /\ Counted(c, p) \in [Phase -> {0, 1}]
         /\ \A q \in Phase \ {p}: Counted(c, p)[q] = c[q]
  BY DEF Counted

Judged(x, v) == [x EXCEPT !.asked = v, !.checks = Counted(x.checks, "request"),
                          !.marked = x.marked \/ x.via \in Governed,
                          !.at = IF x.via \in Governed THEN "enter" ELSE "run"]

LEMMA JudgedIs ==
  ASSUME NEW x \in Served, NEW v \in Verdict, x.checks["request"] = 0
  PROVE  LET y == Judged(x, v)
         IN  /\ y \in Served /\ y.at = (IF x.via \in Governed THEN "enter" ELSE "run")
             /\ y.via = x.via /\ y.route = x.route /\ y.own = x.own
             /\ y.sent = x.sent /\ y.marked = (x.marked \/ x.via \in Governed) /\ y.held = x.held
             /\ y.asked = v /\ y.told = x.told
             /\ y.checks["response"] = x.checks["response"]
<1> DEFINE y1 == [x EXCEPT !.asked = v]
           y2 == [y1 EXCEPT !.checks = Counted(x.checks, "request")]
           y3 == [y2 EXCEPT !.marked = x.marked \/ x.via \in Governed]
           y4 == [y3 EXCEPT !.at = IF x.via \in Governed THEN "enter" ELSE "run"]
<1>1. y1 \in Served
  BY Edits
<1>2. /\ Counted(x.checks, "request") \in [Phase -> {0, 1}]
      /\ Counted(x.checks, "request")["response"] = x.checks["response"]
  <2>1. x.checks \in [Phase -> {0, 1}] /\ "request" \in Phase /\ "response" \in Phase \ {"request"}
    BY DEF Served, Phase
  <2> QED
    BY <2>1, CountedOnce
<1>3. y2 \in Served
  <2> HIDE DEF y1
  <2> QED  BY <1>1, <1>2, Edits
<1>4. y3 \in Served
  <2>1. (x.marked \/ x.via \in Governed) \in BOOLEAN
    OBVIOUS
  <2> HIDE DEF y2
  <2> QED  BY <1>3, <2>1, Edits
<1>5. y4 \in Served
  <2>1. (IF x.via \in Governed THEN "enter" ELSE "run")
          \in {"new", "guard", "reading", "asking", "enter", "complete", "run", "tell"} \cup Final
    OBVIOUS
  <2> HIDE DEF y3
  <2> QED  BY <1>4, <2>1, Edits
<1>6. Judged(x, v) = y4
  BY DEF Judged
<1>7. LET y == Judged(x, v)
      IN  /\ y.at = (IF x.via \in Governed THEN "enter" ELSE "run")
          /\ y.via = x.via /\ y.route = x.route /\ y.own = x.own
          /\ y.sent = x.sent /\ y.marked = (x.marked \/ x.via \in Governed) /\ y.held = x.held
          /\ y.asked = v /\ y.told = x.told /\ y.checks = Counted(x.checks, "request")
  BY DEF Judged, Served
<1> QED
  BY <1>2, <1>5, <1>6, <1>7

\* Aria is asked before anything is executed.
LEMMA AskKeepsFront ==
  ASSUME FrontInv, NEW e \in Exchange, Ask(e)
  PROVE  FrontInv'
<1> DEFINE x == ex[e]
<1>1. ExchangeOK(e, x) /\ x \in Served /\ x.at = "asking"
  BY ExchangeFields DEF Ask
<1>2. ex \in [Exchange -> Served] /\ plans' \in [PlanKey -> {"none", "plan"}] /\ aria' = aria
  BY DEF FrontInv, Ask
<1>3. PICK v \in Check(e, "request"):
        IF Passes(v) THEN AskedWith(e, v) /\ UNCHANGED <<slots, assessing>> ELSE Leave(e, "refused")
  BY DEF Ask
<1>4. CASE Leave(e, "refused")
  BY <1>1, <1>4, LeaveKeepsFront DEF Ask, Final
<1>5. CASE Passes(v) /\ AskedWith(e, v) /\ UNCHANGED <<slots, assessing>>
  <2> DEFINE y == Judged(x, v)
  <2>1. v \in Verdict /\ (FailureRefuses => Allowed(e, v, "request"))
    BY <1>5, VerdictsAreOnIt DEF Phase
  <2>2. x.checks["request"] = 0
    BY <1>1 DEF ExchangeOK, ChecksOK
  <2>3. /\ y \in Served /\ y.at = (IF x.via \in Governed THEN "enter" ELSE "run")
        /\ y.via = x.via /\ y.route = x.route /\ y.own = x.own
        /\ y.sent = x.sent /\ y.marked = (x.marked \/ x.via \in Governed) /\ y.held = x.held
        /\ y.asked = v /\ y.told = x.told
        /\ y.checks["response"] = x.checks["response"]
    BY <1>1, <2>1, <2>2, JudgedIs
  <2>4. ex' = [ex EXCEPT ![e] = y]
    BY <1>2, <1>5, ZenonT(60) DEF AskedWith, Judged, Counted
  <2> HIDE DEF y
  <2>5. x.held = 1 /\ ~x.marked /\ x.via # "assess"
    BY <1>1 DEF ExchangeOK, HoldsOK
  <2>6. HoldsOK(y)
    BY <1>1, <2>3, <2>5 DEF ExchangeOK, HoldsOK, Final
  <2>7. AskedOK(e, y)
    BY <1>1, <2>1, <2>3, <2>5 DEF AskedOK
  <2>8. ChecksOK(y) /\ RouteOK(y)
    BY <1>1, <2>3, <2>5 DEF ExchangeOK, ChecksOK, RouteOK, Final
  <2> QED
    BY <1>2, <1>5, <2>3, <2>4, <2>6, <2>7, <2>8, GoesOn DEF ExchangeOK
<1> QED
  BY <1>3, <1>4, <1>5

Spoken(x, at, v) == [Ended(x, at) EXCEPT !.told = v, !.checks = Counted(x.checks, "response")]

LEMMA SpokenIs ==
  ASSUME NEW x \in Served, NEW at \in Final, NEW v \in Verdict, x.checks["response"] = 0
  PROVE  LET y == Spoken(x, at, v)
         IN  /\ y \in Served /\ y.at = at /\ y.via = x.via /\ y.held = 0 /\ ~y.own /\ y.route = "none"
             /\ ~y.marked /\ y.asked = x.asked /\ y.told = v
             /\ y.checks["request"] = x.checks["request"]
<1> DEFINE y0 == Ended(x, at)
           y1 == [y0 EXCEPT !.told = v]
           y2 == [y1 EXCEPT !.checks = Counted(x.checks, "response")]
<1>1. /\ y0 \in Served /\ y0.at = at /\ y0.via = x.via /\ y0.held = 0 /\ ~y0.own /\ y0.route = "none"
      /\ ~y0.marked /\ y0.asked = x.asked
  BY EndedIs
<1>2. /\ Counted(x.checks, "response") \in [Phase -> {0, 1}]
      /\ Counted(x.checks, "response")["request"] = x.checks["request"]
  <2>1. x.checks \in [Phase -> {0, 1}] /\ "response" \in Phase /\ "request" \in Phase \ {"response"}
    BY DEF Served, Phase
  <2> QED
    BY <2>1, CountedOnce
<1>3. Spoken(x, at, v) = y2
  BY DEF Spoken
<1> HIDE DEF y0
<1>4. y1 \in Served
  BY <1>1, Edits
<1>5. y2 \in Served
  <2> HIDE DEF y1
  <2> QED  BY <1>2, <1>4, Edits
<1>6. /\ y2.at = y0.at /\ y2.via = y0.via /\ y2.held = y0.held /\ y2.own = y0.own /\ y2.route = y0.route
      /\ y2.marked = y0.marked /\ y2.asked = y0.asked /\ y2.told = v
      /\ y2.checks = Counted(x.checks, "response")
  BY <1>1 DEF Served
<1> HIDE DEF y2
<1> QED
  BY <1>1, <1>2, <1>3, <1>5, <1>6

\* Nothing leaves a watched exchange before Aria has spoken of it.
LEMMA TellKeepsFront ==
  ASSUME FrontInv, NEW e \in Exchange, Tell(e)
  PROVE  FrontInv'
<1> DEFINE x == ex[e]
<1>1. ExchangeOK(e, x) /\ x \in Served /\ x.at = "tell" /\ slots \in Int /\ assessing \in Int /\ x.held \in {0, 1}
  BY ExchangeFields DEF Tell
<1>2. ex \in [Exchange -> Served] /\ plans' \in [PlanKey -> {"none", "plan"}] /\ aria' = aria
  BY DEF FrontInv, Tell
<1>3. CASE Leave(e, "delivered") /\ (x.held = 0 \/ x.via = "assess")
  <2>1. FailureRefuses => Watched
    BY DEF FailureRefuses, Watched
  <2>2. FailureRefuses => x.via = "assess"
    BY <1>1, <1>3, <2>1 DEF ExchangeOK, HoldsOK
  <2> QED
    BY <1>1, <1>3, <2>2, LeaveKeepsFront DEF Tell, Final
<1>4. CASE Leave(e, "refused")
  BY <1>1, <1>4, LeaveKeepsFront DEF Tell, Final
<1>5. ASSUME ~(x.held = 0 \/ x.via = "assess"), NEW v \in Check(e, "response"),
             ex' = [ex EXCEPT ![e] =
               [Ended(ex[e], IF Passes(v) THEN "delivered" ELSE "refused")
                  EXCEPT !.told = v, !.checks["response"] = @ + 1]],
             slots' = slots + 1, UNCHANGED assessing
      PROVE  FrontInv'
  <2> DEFINE at == IF Passes(v) THEN "delivered" ELSE "refused"
             y == Spoken(x, at, v)
  <2>1. v \in Verdict /\ (Passes(v) /\ FailureRefuses => Allowed(e, v, "response"))
    BY VerdictsAreOnIt DEF Phase
  <2>2. x.checks["response"] = 0
    BY <1>1 DEF ExchangeOK, ChecksOK, Final
  <2>3. at \in Final /\ (at = "delivered" => Passes(v))
    BY DEF Final
  <2>4. Ended(x, at) \in Served /\ Ended(x, at).checks = x.checks
    BY <1>1, <2>3, EndedIs
  <2>5. ex' = [ex EXCEPT ![e] = y]
    <3>1. [Ended(x, at) EXCEPT !.told = v, !.checks["response"] = @ + 1] = y
      BY <2>4 DEF Spoken, Counted, Served
    <3>2. ex' = [ex EXCEPT ![e] = [Ended(x, at) EXCEPT !.told = v, !.checks["response"] = @ + 1]]
      BY <1>5
    <3> HIDE DEF at, y
    <3> QED
      BY <3>1, <3>2
  <2> HIDE DEF at
  <2>6. /\ y \in Served /\ y.at = at /\ y.via = x.via /\ y.held = 0 /\ ~y.own /\ y.route = "none"
        /\ ~y.marked /\ y.asked = x.asked /\ y.told = v
        /\ y.checks["request"] = x.checks["request"]
    BY <1>1, <2>1, <2>2, <2>3, SpokenIs
  <2> HIDE DEF y
  <2>7. HoldsOK(y) /\ ChecksOK(y) /\ RouteOK(y)
    BY <1>1, <1>5, <2>3, <2>6 DEF ExchangeOK, HoldsOK, ChecksOK, RouteOK, Final
  <2>8. AskedOK(e, y)
    BY <1>1, <2>1, <2>3, <2>6 DEF ExchangeOK, AskedOK, Final
  <2>9. slots' = slots + Ordinary(x) - Ordinary(y) /\ assessing' = assessing + Assessing(x) - Assessing(y)
    BY <1>1, <1>5, <2>6 DEF Ordinary, Assessing
  <2> QED
    BY <1>2, <2>5, <2>6, <2>7, <2>8, <2>9, ExchangeSteps DEF ExchangeOK
<1> QED
  BY <1>3, <1>4, <1>5 DEF Tell

LEMMA FrontKeeps ==
  ASSUME FrontInv, [FrontNext]_frontVars
  PROVE  FrontInv'
<1>1. CASE FrontNext
  <2> PICK e \in Exchange: Arrive(e) \/ Guard(e) \/ ReadBody(e) \/ Ask(e) \/ Enter(e) \/ Complete(e)
                             \/ Run(e) \/ Tell(e) \/ Disconnect(e)
    BY <1>1 DEF FrontNext
  <2> QED
    BY ArriveKeepsFront, GuardKeepsFront, ReadBodyKeepsFront, AskKeepsFront, EnterKeepsFront,
       CompleteKeepsFront, RunKeepsFront, TellKeepsFront, DisconnectKeepsFront
<1>2. CASE UNCHANGED frontVars
  <2>1. \A e \in Exchange: ExchangeOK(e, ex[e])'
    BY <1>2 DEF frontVars, FrontInv, ExchangeOK, HoldsOK, AskedOK, ChecksOK, RouteOK, Watched,
                FailureRefuses, Allowed
  <2> QED
    BY <1>2, <2>1 DEF frontVars, FrontInv, OrdinaryHolders, AssessmentHolders
<1> QED
  BY <1>1, <1>2

LEMMA FrontStarts ==
  ASSUME FrontInit PROVE FrontInv
<1>1. ex \in [Exchange -> Served] /\ \A e \in Exchange: ex[e] = New
  BY NewIsServed DEF FrontInit
<1>2. New.at = "new" /\ New.via = "none" /\ New.checks["request"] = 0 /\ New.checks["response"] = 0
  BY DEF New, Phase
<1>3. \A e \in Exchange: ExchangeOK(e, New)
  BY <1>2, NewIsServed DEF ExchangeOK, HoldsOK, AskedOK, ChecksOK, RouteOK, Final, Governed
<1>4. OrdinaryHolders = {} /\ AssessmentHolders = {}
  BY <1>1, NewIsServed DEF OrdinaryHolders, AssessmentHolders
<1> QED
  BY <1>1, <1>3, <1>4, FrontAssumption, FS_EmptySet DEF FrontInit, FrontInv

(* Enforcing, nothing is executed and nothing leaves before Aria allowed that
   request and that response; an exchange is checked once a phase, an assessment
   never; the permits of both kinds are accounted for and come back; a caller's
   own endpoint is answered by it alone; and every cached plan is a provider's
   (governance.rs, app.rs). *)
THEOREM Governs == FrontSpec => []FrontIsGoverned
<1>1. ASSUME FrontInv PROVE FrontIsGoverned
  <2>1. ASSUME NEW e \in Exchange PROVE ExchangeOK(e, ex[e]) /\ ex[e].checks \in [Phase -> {0, 1}]
    BY <1>1, ExchangeFields
  <2>2. NothingUnchecked
    BY <2>1 DEF NothingUnchecked, ExchangeOK, AskedOK
  <2>3. OwnEndpointAlone /\ PlansAreReal
    BY <1>1, <2>1 DEF OwnEndpointAlone, PlansAreReal, ExchangeOK, RouteOK, FrontInv
  <2>4. ASSUME NEW e \in Exchange, NEW p \in Phase
        PROVE  ex[e].checks[p] <= IF ex[e].via = "assess" THEN 0 ELSE 1
    BY <2>1 DEF ExchangeOK, ChecksOK, Phase
  <2>5. \A e \in Exchange: ex[e].at \in Final => ex[e].held = 0
    BY <2>1 DEF ExchangeOK, HoldsOK
  <2>6. CheckedOnce
    BY <1>1, <2>4, <2>5 DEF CheckedOnce, FrontInv, OrdinaryHolders, AssessmentHolders
  <2> QED
    BY <2>2, <2>3, <2>6 DEF FrontIsGoverned
<1> QED
  BY <1>1, FrontStarts, FrontKeeps, PTL DEF FrontSpec

(* ---------------------------------------------------------------------- *)
(* The voice skill                                                        *)

AskRecords == [by: Voice, st: {"running", "stopped", "answered", "blocked", "failed"},
               loose: BOOLEAN, told: {0, 1}]
Entries == [ask: Nat, hist: Seq(Nat), created: Nat]

VoiceTypeOK ==
  /\ beat \in Nat
  /\ asks \in Seq(AskRecords)
  /\ pend \in [Voice -> Entries]
  /\ turn \in [Voice -> Entries]
  /\ heard \in [Voice -> Seq(Nat)]

\* A task a session has in hand is its own, was told to nobody and not aborted,
\* and continues the conversation as the device has it.
InHand(s, entry) ==
  entry.ask # 0 => /\ entry.ask \in 1..Len(asks)
                   /\ asks[entry.ask].by = s /\ asks[entry.ask].told = 0
                   /\ asks[entry.ask].st # "stopped"
                   /\ entry.hist = heard[s]

\* What the device has heard are answers of its own session.
Spoke(s) == /\ Len(heard[s]) <= MaxTurns
            /\ \A i \in 1..Len(heard[s]): heard[s][i] \in 1..Len(asks) /\ asks[heard[s][i]].by = s

SessionOK(s) == /\ turn[s].ask = 0 \/ pend[s].ask = 0
                /\ InHand(s, turn[s]) /\ InHand(s, pend[s]) /\ Spoke(s)

HeldBy(s, a) == turn[s].ask = a \/ pend[s].ask = a

AskOK(a) == /\ asks[a].st = "running" /\ ~asks[a].loose => \E s \in Voice: HeldBy(s, a)
            /\ asks[a].st = "stopped" => asks[a].told = 0

VoiceInv ==
  /\ VoiceTypeOK
  /\ \A s \in Voice: SessionOK(s)
  /\ \A a \in 1..Len(asks): AskOK(a)
  /\ Cardinality(Held) <= MaxPending

\* The tasks of B are let go, stopped or left to run on; the others are as they were.
LetGo(as, B) ==
  /\ as \in Seq(AskRecords) /\ Len(as) >= Len(asks)
  /\ \A a \in 1..Len(asks): a \notin B => as[a] = asks[a]
  /\ \A a \in 1..Len(asks): as[a].by = asks[a].by /\ as[a].told = asks[a].told
  /\ \A a \in 1..Len(asks): a \in B => /\ ~(as[a].st = "running" /\ ~as[a].loose)
                                       /\ as[a].st = "stopped" => asks[a].st \in {"running", "stopped"}

LEMMA AskFields ==
  ASSUME VoiceTypeOK, NEW a \in 1..Len(asks)
  PROVE  /\ asks[a] \in AskRecords /\ asks[a].by \in Voice /\ asks[a].told \in {0, 1}
         /\ asks[a].loose \in BOOLEAN
<1>1. asks[a] \in AskRecords
  BY DEF VoiceTypeOK
<1> QED
  BY <1>1 DEF AskRecords

LEMMA NoneLetGo ==
  ASSUME VoiceTypeOK PROVE LetGo(asks, {})
  BY DEF VoiceTypeOK, LetGo

LEMMA StopLetsGo ==
  ASSUME VoiceTypeOK, NEW a \in 1..Len(asks)
  PROVE  LetGo(Stopped(asks, a), {a})
<1> DEFINE r == [asks[a] EXCEPT !.st = IF asks[a].st = "running" THEN "stopped" ELSE asks[a].st]
<1>1. asks \in Seq(AskRecords) /\ asks[a] \in AskRecords
  BY AskFields DEF VoiceTypeOK
<1>2. /\ r \in AskRecords /\ r.by = asks[a].by /\ r.told = asks[a].told /\ r.st # "running"
      /\ r.st = "stopped" => asks[a].st \in {"running", "stopped"}
  BY <1>1 DEF AskRecords
<1>3. Stopped(asks, a) = [asks EXCEPT ![a] = r]
  BY <1>1 DEF Stopped
<1> HIDE DEF r
<1> QED
  BY <1>1, <1>2, <1>3 DEF LetGo

LEMMA DropLetsGo ==
  ASSUME VoiceTypeOK, NEW a \in 1..Len(asks)
  PROVE  LetGo(Dropped(asks, a), {a})
<1> DEFINE r == [asks[a] EXCEPT !.loose = TRUE]
<1>1. asks \in Seq(AskRecords) /\ asks[a] \in AskRecords
  BY AskFields DEF VoiceTypeOK
<1>2. /\ r \in AskRecords /\ r.by = asks[a].by /\ r.told = asks[a].told /\ r.loose
      /\ r.st = asks[a].st
  BY <1>1 DEF AskRecords
<1>3. Dropped(asks, a) = [asks EXCEPT ![a] = r]
  BY <1>1 DEF Dropped
<1> HIDE DEF r
<1> QED
  BY <1>1, <1>2, <1>3 DEF LetGo

\* history_from: at most the last turns, and nothing else than what was there.
LEMMA LastIs ==
  ASSUME NEW h \in Seq(Nat)
  PROVE  /\ Last(h) \in Seq(Nat) /\ Len(Last(h)) <= MaxTurns
         /\ \A i \in 1..Len(Last(h)): \E j \in 1..Len(h): Last(h)[i] = h[j]
         /\ Len(h) <= MaxTurns => Last(h) = h
<1> USE VoiceAssumption
<1>1. Len(h) \in Nat
  OBVIOUS
<1>2. CASE Len(h) <= MaxTurns
  <2>1. Last(h) = h
    BY <1>2 DEF Last
  <2> QED
    BY <1>2, <2>1
<1>3. CASE ~(Len(h) <= MaxTurns)
  <2> DEFINE m == Len(h) - MaxTurns + 1
  <2>1. m \in 1..(Len(h) + 1) /\ m \in Nat /\ Len(h) - m + 1 = MaxTurns
    BY <1>1, <1>3
  <2>2. Last(h) = SubSeq(h, m, Len(h))
    BY <1>3 DEF Last
  <2> HIDE DEF m
  <2>3. SubSeq(h, m, Len(h)) \in Seq(Nat) /\ Len(SubSeq(h, m, Len(h))) = MaxTurns
    BY <1>1, <2>1
  <2>4. \A i \in 1..MaxTurns: SubSeq(h, m, Len(h))[i] = h[m + i - 1] /\ m + i - 1 \in 1..Len(h)
    BY <1>1, <2>1, <2>3
  <2>5. Len(Last(h)) = MaxTurns
    BY <2>2, <2>3
  <2>6. ASSUME NEW i \in 1..MaxTurns
        PROVE  \E j \in 1..Len(h): Last(h)[i] = h[j]
    BY <2>2, <2>4
  <2>7. \A i \in 1..Len(Last(h)): \E j \in 1..Len(h): Last(h)[i] = h[j]
    BY <2>5, <2>6
  <2>8. Last(h) \in Seq(Nat) /\ Len(Last(h)) <= MaxTurns
    BY <2>2, <2>3, <2>5
  <2> QED
    BY <1>3, <2>7, <2>8
<1> QED
  BY <1>2, <1>3

\* The tasks a session has heard of stay its own.
LEMMA SpokeStays ==
  ASSUME NEW s, Spoke(s), heard'[s] \in {heard[s], <<>>},
         \A a \in 1..Len(asks): a \in 1..Len(asks') /\ asks'[a].by = asks[a].by
  PROVE  Spoke(s)'
<1>1. CASE heard'[s] = heard[s]
  <2>1. Len(heard'[s]) <= MaxTurns
    BY <1>1 DEF Spoke
  <2>2. ASSUME NEW i \in 1..Len(heard'[s])
        PROVE  heard'[s][i] \in 1..Len(asks') /\ asks'[heard'[s][i]].by = s
    BY <1>1 DEF Spoke
  <2> QED
    BY <2>1, <2>2 DEF Spoke
<1>2. CASE heard'[s] = <<>>
  <2>1. Len(heard'[s]) = 0
    BY <1>2
  <2> QED
    BY <2>1, VoiceAssumption DEF Spoke
<1> QED
  BY <1>1, <1>2

\* The steps of a session s that let go of the tasks of B and hear no answer:
\* what s had in hand it still has, or let go, and what it asks it has in hand.
LEMMA HandsOn ==
  ASSUME VoiceInv, VoiceTypeOK', NEW B, LetGo(asks', B), NEW s \in Voice,
         \A v \in Voice \ {s}: /\ turn'[v] = turn[v] /\ heard'[v] = heard[v]
                               /\ \/ pend'[v] = pend[v]
                                  \/ pend'[v] = Nothing /\ (pend[v].ask # 0 => pend[v].ask \in B),
         \A v \in Voice: \A a \in B: a # 0 => turn'[v].ask # a /\ pend'[v].ask # a,
         \A a \in 1..Len(asks): HeldBy(s, a) /\ a \notin B => turn'[s].ask = a \/ pend'[s].ask = a,
         \A a \in 1..Len(asks'): a \notin 1..Len(asks) =>
            asks'[a].by = s /\ asks'[a].told = 0 /\ asks'[a].st = "running" /\ turn'[s].ask = a,
         turn'[s].ask = 0 \/ pend'[s].ask = 0,
         turn'[s].ask # 0 => /\ turn'[s].hist = heard'[s]
                             /\ \/ turn'[s].ask \in {turn[s].ask, pend[s].ask}
                                \/ turn'[s].ask \in 1..Len(asks') /\ turn'[s].ask \notin 1..Len(asks),
         pend'[s].ask # 0 => pend'[s].ask \in {turn[s].ask, pend[s].ask} /\ pend'[s].hist = heard'[s],
         heard'[s] \in {heard[s], <<>>},
         \A a \in B: a \in 1..Len(asks) => asks[a].told = 0,
         Cardinality(Held') <= MaxPending
  PROVE  VoiceInv'
<1> USE VoiceAssumption
<1>1. Len(asks') >= Len(asks) /\ Len(asks) \in Nat /\ Len(asks') \in Nat
  BY DEF LetGo, VoiceInv, VoiceTypeOK
<1>2. ASSUME NEW a \in 1..Len(asks), a \notin B
      PROVE  asks'[a] = asks[a]
  BY <1>2 DEF LetGo
<1>3. \A a \in 1..Len(asks): a \in 1..Len(asks') /\ asks'[a].by = asks[a].by /\ asks'[a].told = asks[a].told
  BY <1>1 DEF LetGo
<1>4. ASSUME NEW v \in Voice \ {s} PROVE SessionOK(v)'
  <2>1. /\ SessionOK(v) /\ turn'[v] = turn[v] /\ heard'[v] = heard[v]
        /\ pend'[v] = pend[v] \/ pend'[v] = Nothing
    BY DEF VoiceInv
  <2>2. InHand(v, turn[v])'
    <3>1. CASE turn[v].ask = 0
      BY <2>1, <3>1 DEF InHand
    <3>2. CASE turn[v].ask # 0
      <4>1. turn[v].ask \notin B
        BY <2>1, <3>2
      <4> QED
        BY <1>2, <1>3, <2>1, <3>2, <4>1 DEF SessionOK, InHand
    <3> QED
      BY <3>1, <3>2
  <2>3. InHand(v, pend[v])'
    <3>1. CASE pend'[v].ask = 0
      BY <3>1 DEF InHand
    <3>2. CASE pend'[v].ask # 0
      <4>1. pend'[v] = pend[v] /\ pend[v].ask \notin B
        BY <2>1, <3>2 DEF Nothing
      <4> QED
        BY <1>2, <1>3, <2>1, <3>2, <4>1 DEF SessionOK, InHand
    <3> QED
      BY <3>1, <3>2
  <2>4. Spoke(v)'
    BY <1>3, <2>1, SpokeStays DEF SessionOK
  <2>5. (turn[v].ask = 0 \/ pend[v].ask = 0)'
    BY <2>1 DEF SessionOK, Nothing
  <2> QED
    BY <2>2, <2>3, <2>4, <2>5 DEF SessionOK
<1>5. SessionOK(s)'
  <2>1. SessionOK(s)
    BY DEF VoiceInv
  <2>2. ASSUME NEW a, a \in {turn[s].ask, pend[s].ask}, a # 0, a \notin B
        PROVE  /\ a \in 1..Len(asks') /\ asks'[a].by = s /\ asks'[a].told = 0 /\ asks'[a].st # "stopped"
    <3>1. a \in 1..Len(asks) /\ asks[a].by = s /\ asks[a].told = 0 /\ asks[a].st # "stopped"
      BY <2>1, <2>2 DEF SessionOK, InHand
    <3> QED
      BY <1>2, <1>3, <2>2, <3>1
  <2>3. InHand(s, turn[s])'
    BY <2>2 DEF InHand
  <2>4. InHand(s, pend[s])'
    BY <2>2 DEF InHand
  <2>5. Spoke(s)'
    BY <1>3, <2>1, SpokeStays DEF SessionOK
  <2> QED
    BY <2>3, <2>4, <2>5 DEF SessionOK
<1>6. ASSUME NEW a \in 1..Len(asks) PROVE AskOK(a)'
  <2>1. AskOK(a)
    BY DEF VoiceInv
  <2>2. CASE a \in B
    <3>1. /\ ~(asks'[a].st = "running" /\ ~asks'[a].loose) /\ asks'[a].told = asks[a].told
          /\ asks'[a].st = "stopped" => asks[a].st \in {"running", "stopped"}
      BY <2>2 DEF LetGo
    <3> QED
      BY <2>2, <3>1 DEF AskOK
  <2>3. CASE a \notin B
    <3>1. asks'[a] = asks[a]
      BY <1>2, <2>3
    <3>2. ASSUME asks[a].st = "running" /\ ~asks[a].loose
          PROVE  \E v \in Voice: turn'[v].ask = a \/ pend'[v].ask = a
      <4>1. PICK v \in Voice: HeldBy(v, a)
        BY <2>1, <3>2 DEF AskOK
      <4>2. CASE v = s
        BY <2>3, <4>1, <4>2
      <4>3. CASE v # s
        BY <2>3, <4>1, <4>3 DEF HeldBy
      <4> QED
        BY <4>2, <4>3
    <3> QED
      BY <2>1, <3>1, <3>2 DEF AskOK, HeldBy
  <2> QED
    BY <2>2, <2>3
<1>7. ASSUME NEW a \in 1..Len(asks'), a \notin 1..Len(asks) PROVE AskOK(a)'
  BY <1>7 DEF AskOK, HeldBy
<1> QED
  BY <1>4, <1>5, <1>6, <1>7 DEF VoiceInv

LEMMA OneHolds ==
  ASSUME VoiceInv, NEW v \in Voice, NEW w \in Voice, NEW a, a # 0, HeldBy(v, a), HeldBy(w, a)
  PROVE  v = w /\ a \in 1..Len(asks) /\ asks[a].told = 0 /\ asks[a].by = v /\ asks[a].st # "stopped"
  BY DEF VoiceInv, SessionOK, InHand, HeldBy

LEMMA HeldShrinks ==
  ASSUME VoiceInv, Held' \subseteq Held PROVE Cardinality(Held') <= MaxPending
<1>1. IsFiniteSet(Held)
  BY VoiceAssumption, FS_Subset DEF Held
<1>2. Cardinality(Held') <= Cardinality(Held) /\ Cardinality(Held) \in Nat /\ Cardinality(Held') \in Nat
  BY <1>1, FS_Subset, FS_CardinalityType
<1> QED
  BY <1>2, VoiceAssumption DEF VoiceInv

LEMMA NothingIs == Nothing \in Entries /\ Nothing.ask = 0
  BY DEF Nothing, Entries

\* What was put aside for a session is let go.
LEMMA Clears ==
  ASSUME VoiceInv, NEW s \in Voice
  PROVE  /\ LetGo(ClearPending(s).asks, {pend[s].ask} \ {0})
         /\ Len(ClearPending(s).asks) = Len(asks)
         /\ ClearPending(s).pend = [pend EXCEPT ![s] = Nothing]
         /\ ~Fresh(pend[s]) => LetGo(AfterTake(s), {pend[s].ask} \ {0}) /\ Len(AfterTake(s)) = Len(asks)
         /\ Fresh(pend[s]) => pend[s].ask # 0 /\ AfterTake(s) = asks
<1>1. VoiceTypeOK /\ (pend[s].ask # 0 => pend[s].ask \in 1..Len(asks))
  BY DEF VoiceInv, SessionOK, InHand
<1>2. Fresh(pend[s]) => pend[s].ask # 0
  BY DEF Fresh
<1>3. CASE pend[s].ask = 0
  BY <1>1, <1>2, <1>3, NoneLetGo DEF ClearPending, AfterTake
<1>4. CASE pend[s].ask # 0
  <2>1. {pend[s].ask} \ {0} = {pend[s].ask}
    BY <1>4
  <2>2. LetGo(Stopped(asks, pend[s].ask), {pend[s].ask}) /\ LetGo(Dropped(asks, pend[s].ask), {pend[s].ask})
    BY <1>1, <1>4, StopLetsGo, DropLetsGo
  <2>3. Len(Stopped(asks, pend[s].ask)) = Len(asks) /\ Len(Dropped(asks, pend[s].ask)) = Len(asks)
    BY <1>1 DEF VoiceTypeOK, Stopped, Dropped
  <2> QED
    BY <1>2, <1>4, <2>1, <2>2, <2>3 DEF ClearPending, AfterTake
<1> QED
  BY <1>3, <1>4

\* The conversation a device sends is taken as it is.
LEMMA HistoryIsHeard ==
  ASSUME VoiceInv, NEW s \in Voice
  PROVE  HistoryFrom(s) = heard[s] /\ heard[s] \in Seq(Nat)
<1>1. heard[s] \in Seq(Nat) /\ Len(heard[s]) <= MaxTurns
  BY DEF VoiceInv, VoiceTypeOK, SessionOK, Spoke
<1> QED
  BY <1>1, LastIs DEF HistoryFrom

LEMMA ChatKeepsVoice ==
  ASSUME VoiceInv, NEW s \in Voice, Chat(s)
  PROVE  VoiceInv'
<1>1. /\ heard' = heard /\ UNCHANGED <<beat, asks, pend, turn>>
  <2>1. [heard EXCEPT ![s] = heard[s]] = heard
    BY DEF VoiceInv, VoiceTypeOK
  <2> QED
    BY <2>1, HistoryIsHeard DEF Chat, Still
<1> QED
  BY <1>1 DEF VoiceInv, VoiceTypeOK, SessionOK, InHand, Spoke, AskOK, HeldBy, Held

LEMMA YesKeepsVoice ==
  ASSUME VoiceInv, NEW s \in Voice, Yes(s)
  PROVE  VoiceInv'
<1> DEFINE b == pend[s].ask
           B == IF Fresh(pend[s]) THEN {} ELSE {b} \ {0}
           taken == [Take(s) EXCEPT !.created = 0]
<1>1. /\ turn[s].ask = 0 /\ UNCHANGED <<beat, heard>> /\ asks' = AfterTake(s)
      /\ turn' = [turn EXCEPT ![s] = taken] /\ pend' = [pend EXCEPT ![s] = Nothing]
  BY DEF Yes, Idle, Still
<1>2. VoiceTypeOK /\ pend[s] \in Entries /\ turn \in [Voice -> Entries] /\ pend \in [Voice -> Entries]
  BY DEF VoiceInv, VoiceTypeOK
<1>3. LetGo(asks', B) /\ Len(asks') = Len(asks)
  BY <1>1, <1>2, Clears, NoneLetGo
<1>4. /\ taken \in Entries /\ taken.hist = Take(s).hist
      /\ taken.ask = IF Fresh(pend[s]) THEN b ELSE 0
  BY <1>2, NothingIs DEF Take, Entries
<1>5. Fresh(pend[s]) => taken.hist = pend[s].hist
  BY <1>4 DEF Take
<1> HIDE DEF taken
<1>6. /\ turn' \in [Voice -> Entries] /\ pend' \in [Voice -> Entries]
      /\ turn'[s] = taken /\ pend'[s] = Nothing
      /\ \A v \in Voice \ {s}: turn'[v] = turn[v] /\ pend'[v] = pend[v]
  BY <1>1, <1>2, <1>4, NothingIs
<1>7. VoiceTypeOK'
  BY <1>1, <1>2, <1>3, <1>6 DEF VoiceTypeOK, LetGo
<1>8. Cardinality(Held') <= MaxPending
  <2>1. Held' \subseteq Held
    BY <1>6, NothingIs DEF Held
  <2> QED
    BY <2>1, HeldShrinks
<1>9. InHand(s, pend[s])
  BY DEF VoiceInv, SessionOK
<1>10. \A v \in Voice: \A a \in B: a # 0 => turn'[v].ask # a /\ pend'[v].ask # a
  <2> SUFFICES ASSUME NEW v \in Voice, NEW a \in B, a # 0, HeldBy(v, a)' PROVE FALSE
    BY DEF HeldBy
  <2>1. a = b /\ ~Fresh(pend[s])
    OBVIOUS
  <2>2. v # s
    BY <1>4, <1>6, <2>1, NothingIs DEF HeldBy
  <2>3. HeldBy(v, a) /\ HeldBy(s, a)
    BY <1>6, <2>1, <2>2 DEF HeldBy
  <2> QED
    BY <2>2, <2>3, OneHolds
<1>11. \A a \in B: a \in 1..Len(asks) => asks[a].told = 0
  BY <1>9 DEF InHand
<1>12. \A a \in 1..Len(asks): HeldBy(s, a) /\ a \notin B => turn'[s].ask = a \/ pend'[s].ask = a
  BY <1>1, <1>4, <1>6 DEF HeldBy
<1>13. \A a \in B: a = b
  OBVIOUS
<1> HIDE DEF B
<1> QED
  BY <1>1, <1>3, <1>4, <1>5, <1>6, <1>7, <1>8, <1>9, <1>10, <1>11, <1>12, NothingIs, HandsOn DEF InHand
\* What is put aside for s is held by nobody once s has it no more.
LEMMA PutAsideIsFree ==
  ASSUME VoiceInv, NEW s \in Voice, turn[s].ask = 0, NEW v \in Voice, NEW a \in {pend[s].ask} \ {0},
         turn'[s].ask # a, pend'[s].ask = 0,
         v # s => turn'[v] = turn[v] /\ pend'[v] = pend[v]
  PROVE  turn'[v].ask # a /\ pend'[v].ask # a
<1>1. CASE v = s
  BY <1>1
<1>2. CASE v # s
  <2>1. a # 0 /\ HeldBy(s, a)
    BY DEF HeldBy
  <2>2. ~HeldBy(v, a)
    BY <1>2, <2>1, OneHolds
  <2> QED
    BY <1>2, <2>2 DEF HeldBy
<1> QED
  BY <1>1, <1>2

LEMMA AbandonKeepsVoice ==
  ASSUME VoiceInv, NEW s \in Voice, Abandon(s)
  PROVE  VoiceInv'
<1> DEFINE B == {pend[s].ask} \ {0}
<1>1. /\ turn[s].ask = 0 /\ UNCHANGED <<beat, turn>> /\ asks' = ClearPending(s).asks
      /\ pend' = [pend EXCEPT ![s] = Nothing]
  BY Clears DEF Abandon, Idle, Still
<1>2. VoiceTypeOK
  BY DEF VoiceInv
<1>3. PICK h \in {<<>>, heard[s]}: heard' = [heard EXCEPT ![s] = h]
  BY HistoryIsHeard DEF Abandon
<1>4. h \in Seq(Nat)
  <2>1. <<>> \in Seq(Nat) /\ heard[s] \in Seq(Nat)
    BY HistoryIsHeard
  <2> QED
    BY <2>1
<1>5. LetGo(asks', B) /\ Len(asks') = Len(asks)
  BY <1>1, Clears
<1>6. /\ pend' \in [Voice -> Entries] /\ pend'[s] = Nothing /\ heard' \in [Voice -> Seq(Nat)] /\ heard'[s] = h
      /\ \A v \in Voice \ {s}: pend'[v] = pend[v] /\ heard'[v] = heard[v]
  BY <1>1, <1>2, <1>3, <1>4, NothingIs DEF VoiceTypeOK
<1>7. VoiceTypeOK'
  BY <1>1, <1>2, <1>5, <1>6 DEF VoiceTypeOK, LetGo
<1>8. Cardinality(Held') <= MaxPending
  <2>1. Held' \subseteq Held
    BY <1>6, NothingIs DEF Held
  <2> QED
    BY <2>1, HeldShrinks
<1>9. \A v \in Voice: \A a \in B: turn'[v].ask # a /\ pend'[v].ask # a
  BY <1>1, <1>6, PutAsideIsFree, NothingIs
<1>10. \A a \in B: a \in 1..Len(asks) => asks[a].told = 0
  BY OneHolds DEF HeldBy
<1>11. \A a \in 1..Len(asks): HeldBy(s, a) => a \in B
  BY <1>1 DEF HeldBy
<1> HIDE DEF B
<1> QED
  BY <1>1, <1>3, <1>5, <1>6, <1>7, <1>8, <1>9, <1>10, <1>11, NothingIs, HandsOn

LEMMA LostKeepsVoice ==
  ASSUME VoiceInv, NEW s \in Voice, Lost(s)
  PROVE  VoiceInv'
<1> DEFINE B == {turn[s].ask}
<1>1. /\ turn[s].ask # 0 /\ UNCHANGED <<beat, pend, heard>> /\ asks' = Dropped(asks, turn[s].ask)
      /\ turn' = [turn EXCEPT ![s] = Nothing]
  BY DEF Lost, Idle, Still
<1>2. VoiceTypeOK /\ SessionOK(s) /\ turn[s].ask \in 1..Len(asks)
  BY <1>1 DEF VoiceInv, SessionOK, InHand
<1>3. LetGo(asks', B) /\ Len(asks') = Len(asks)
  <2>1. LetGo(Dropped(asks, turn[s].ask), {turn[s].ask})
    BY <1>2, DropLetsGo
  <2>2. Len(Dropped(asks, turn[s].ask)) = Len(asks)
    BY <1>2 DEF Dropped, VoiceTypeOK
  <2> QED
    BY <1>1, <2>1, <2>2
<1>4. turn' \in [Voice -> Entries] /\ turn'[s] = Nothing /\ \A v \in Voice \ {s}: turn'[v] = turn[v]
  BY <1>1, <1>2, NothingIs DEF VoiceTypeOK
<1>5. VoiceTypeOK'
  BY <1>1, <1>2, <1>3, <1>4 DEF VoiceTypeOK, LetGo
<1>6. Cardinality(Held') <= MaxPending
  <2>1. Held' \subseteq Held
    BY <1>1 DEF Held
  <2> QED
    BY <2>1, HeldShrinks
<1>7. HeldBy(s, turn[s].ask) /\ pend[s].ask = 0
  BY <1>1, <1>2 DEF HeldBy, SessionOK
<1>8. \A v \in Voice: \A a \in B: a # 0 => turn'[v].ask # a /\ pend'[v].ask # a
  <2> SUFFICES ASSUME NEW v \in Voice, turn'[v].ask = turn[s].ask \/ pend'[v].ask = turn[s].ask
               PROVE  FALSE
    OBVIOUS
  <2>1. turn'[v].ask = turn[s].ask \/ pend[v].ask = turn[s].ask
    BY <1>1
  <2> QED
    BY <1>1, <1>4, <1>7, <2>1, OneHolds, NothingIs DEF HeldBy
<1>9. \A a \in B: a \in 1..Len(asks) => asks[a].told = 0
  BY <1>1, <1>7, OneHolds
<1>10. \A a \in 1..Len(asks): HeldBy(s, a) => a \in B
  BY <1>7 DEF HeldBy
<1> HIDE DEF B
<1> QED
  BY <1>1, <1>3, <1>4, <1>5, <1>6, <1>7, <1>8, <1>9, <1>10, NothingIs, HandsOn

LEMMA QuestionKeepsVoice ==
  ASSUME VoiceInv, NEW s \in Voice, Question(s)
  PROVE  VoiceInv'
<1> DEFINE B == {pend[s].ask} \ {0}
           left == ClearPending(s).asks
           n == Len(asks) + 1
           new == [by |-> s, st |-> "running", loose |-> FALSE, told |-> 0]
           entry == [ask |-> n, hist |-> HistoryFrom(s), created |-> 0]
<1>1. /\ turn[s].ask = 0 /\ UNCHANGED <<beat, heard>> /\ asks' = Append(left, new)
      /\ pend' = [pend EXCEPT ![s] = Nothing] /\ turn' = [turn EXCEPT ![s] = entry]
  BY Clears DEF Question, Idle, Still
<1>2. VoiceTypeOK /\ Len(asks) \in Nat
  BY DEF VoiceInv, VoiceTypeOK
<1>3. LetGo(left, B) /\ Len(left) = Len(asks) /\ left \in Seq(AskRecords)
  BY Clears DEF LetGo
<1>4. new \in AskRecords /\ new.by = s /\ new.st = "running" /\ new.told = 0
  BY DEF AskRecords
<1>5. entry \in Entries /\ entry.ask = n /\ entry.hist = heard[s]
  BY <1>2, HistoryIsHeard DEF Entries
<1> HIDE DEF left, new, entry
<1>6. /\ asks' \in Seq(AskRecords) /\ Len(asks') = n /\ asks'[n] = new
      /\ \A a \in 1..Len(asks): asks'[a] = left[a]
  <2>1. left \in Seq(AskRecords) /\ new \in AskRecords /\ asks' = Append(left, new)
    BY <1>1, <1>3, <1>4
  <2>2. /\ asks' \in Seq(AskRecords) /\ Len(asks') = Len(left) + 1 /\ asks'[Len(left) + 1] = new
        /\ \A i \in 1..Len(left): asks'[i] = left[i]
    BY <2>1
  <2>3. asks' \in Seq(AskRecords) /\ Len(asks') = n /\ asks'[n] = new
    BY <1>3, <2>1, <2>2, Zenon
  <2>4. \A a \in 1..Len(asks): asks'[a] = left[a]
    BY <1>3, <2>1, <2>2, Zenon
  <2> QED
    BY <2>3, <2>4
<1>7. LetGo(asks', B)
  <2>1. Len(asks') >= Len(asks)
    BY <1>2, <1>6
  <2> QED
    BY <1>3, <1>6, <2>1 DEF LetGo
<1>8. /\ pend' \in [Voice -> Entries] /\ pend'[s] = Nothing /\ turn' \in [Voice -> Entries] /\ turn'[s] = entry
      /\ \A v \in Voice \ {s}: pend'[v] = pend[v] /\ turn'[v] = turn[v]
  BY <1>1, <1>2, <1>5, NothingIs DEF VoiceTypeOK
<1>9. VoiceTypeOK'
  BY <1>1, <1>2, <1>6, <1>8 DEF VoiceTypeOK
<1>10. Cardinality(Held') <= MaxPending
  <2>1. Held' \subseteq Held
    BY <1>8, NothingIs DEF Held
  <2> QED
    BY <2>1, HeldShrinks
<1>11. pend[s].ask # 0 => pend[s].ask \in 1..Len(asks) /\ asks[pend[s].ask].told = 0
  BY OneHolds DEF HeldBy
<1>12. \A v \in Voice: \A a \in B: turn'[v].ask # a /\ pend'[v].ask # a
  <2>1. \A a \in B: a # n
    BY <1>2, <1>11
  <2> QED
    BY <1>1, <1>5, <1>8, <2>1, PutAsideIsFree, NothingIs
<1>13. \A a \in B: a \in 1..Len(asks) => asks[a].told = 0
  BY <1>11
<1>14. \A a \in 1..Len(asks): HeldBy(s, a) => a \in B
  BY <1>1 DEF HeldBy
<1>15. n \in 1..n /\ n \notin 1..Len(asks) /\ \A a \in 1..n: a \in 1..Len(asks) \/ a = n
  BY <1>2
<1> HIDE DEF B, n
<1>16. \A a \in 1..Len(asks'): a \notin 1..Len(asks) =>
         asks'[a].by = s /\ asks'[a].told = 0 /\ asks'[a].st = "running" /\ turn'[s].ask = a
  BY <1>4, <1>5, <1>6, <1>8, <1>15
<1>17. /\ turn'[s].hist = heard'[s] /\ turn'[s].ask \in 1..Len(asks') /\ turn'[s].ask \notin 1..Len(asks)
       /\ pend'[s].ask = 0 /\ heard'[s] = heard[s]
       /\ \A v \in Voice \ {s}: turn'[v] = turn[v] /\ heard'[v] = heard[v] /\ pend'[v] = pend[v]
  BY <1>1, <1>5, <1>6, <1>8, <1>15, NothingIs
<1> QED
  BY <1>7, <1>9, <1>10, <1>12, <1>13, <1>14, <1>16, <1>17, HandsOn

\* The task ends: with something to tell, or not.
LEMMA AskEndsKeepsVoice ==
  ASSUME VoiceInv, NEW a \in 1..Len(asks), AskEnds(a)
  PROVE  VoiceInv'
<1>1. PICK st \in {"answered", "blocked", "failed"}: asks' = [asks EXCEPT ![a].st = st]
  BY DEF AskEnds
<1> DEFINE r == [asks[a] EXCEPT !.st = st]
<1>2. VoiceTypeOK /\ asks[a] \in AskRecords /\ UNCHANGED <<beat, pend, turn, heard>>
  BY AskFields DEF VoiceInv, AskEnds, Still
<1>3. r \in AskRecords /\ r.by = asks[a].by /\ r.told = asks[a].told /\ r.st \notin {"running", "stopped"}
  BY <1>2 DEF AskRecords
<1>4. asks' = [asks EXCEPT ![a] = r]
  BY <1>1, <1>2 DEF VoiceTypeOK
<1> HIDE DEF r
<1>5. /\ asks' \in Seq(AskRecords) /\ Len(asks') = Len(asks) /\ asks'[a] = r
      /\ \A b \in 1..Len(asks): b # a => asks'[b] = asks[b]
  BY <1>2, <1>3, <1>4 DEF VoiceTypeOK
<1>6. VoiceTypeOK'
  BY <1>2, <1>5 DEF VoiceTypeOK
<1>7. ASSUME NEW s \in Voice PROVE SessionOK(s)'
  <2>1. SessionOK(s)
    BY DEF VoiceInv
  <2>2. \A b \in 1..Len(asks): asks'[b].by = asks[b].by /\ asks'[b].told = asks[b].told
                               /\ (asks'[b].st = "stopped" => asks[b].st = "stopped")
    BY <1>3, <1>5
  <2> QED
    BY <1>2, <1>5, <2>1, <2>2 DEF SessionOK, InHand, Spoke
<1>8. ASSUME NEW b \in 1..Len(asks) PROVE AskOK(b)'
  <2>1. AskOK(b)
    BY DEF VoiceInv
  <2>2. CASE b = a
    BY <1>3, <1>5, <2>2 DEF AskOK
  <2>3. CASE b # a
    BY <1>2, <1>5, <2>1, <2>3 DEF AskOK, HeldBy
  <2> QED
    BY <2>2, <2>3
<1> QED
  BY <1>2, <1>5, <1>6, <1>7, <1>8 DEF VoiceInv, Held

\* A task that ended without an answer is let go; an answer is told once.
LEMMA AnswerKeepsVoice ==
  ASSUME VoiceInv, NEW s \in Voice, Answer(s)
  PROVE  VoiceInv'
<1> DEFINE a == turn[s].ask
<1>1. /\ a # 0 /\ asks[a].st # "running" /\ UNCHANGED <<beat, pend>>
      /\ turn' = [turn EXCEPT ![s] = Nothing]
  BY DEF Answer, Idle, Still
<1>2. VoiceTypeOK /\ SessionOK(s) /\ a \in 1..Len(asks) /\ asks[a] \in AskRecords
      /\ asks[a].told = 0 /\ asks[a].by = s /\ asks[a].st # "stopped" /\ pend[s].ask = 0
      /\ turn[s].hist = heard[s] /\ heard[s] \in Seq(Nat)
  BY <1>1, AskFields DEF VoiceInv, VoiceTypeOK, SessionOK, InHand
<1>3. turn' \in [Voice -> Entries] /\ turn'[s] = Nothing /\ \A v \in Voice \ {s}: turn'[v] = turn[v]
  BY <1>1, <1>2, NothingIs DEF VoiceTypeOK
<1>4. Cardinality(Held') <= MaxPending
  <2>1. Held' \subseteq Held
    BY <1>1 DEF Held
  <2> QED
    BY <2>1, HeldShrinks
<1>5. ASSUME NEW v \in Voice \ {s} PROVE turn[v].ask # a /\ pend[v].ask # a
  <2>1. HeldBy(s, a) /\ ~HeldBy(v, a)
    BY <1>1, OneHolds DEF HeldBy
  <2> QED
    BY <2>1 DEF HeldBy
<1>6. CASE asks[a].st # "answered"
  <2>1. asks' = asks /\ heard' = heard
    BY <1>2, <1>6 DEF Answer, VoiceTypeOK
  <2>2. VoiceTypeOK'
    BY <1>1, <1>2, <1>3, <2>1 DEF VoiceTypeOK
  <2>3. ASSUME NEW v \in Voice PROVE SessionOK(v)'
    <3>1. SessionOK(v)
      BY DEF VoiceInv
    <3> QED
      BY <1>1, <1>3, <2>1, <3>1, NothingIs DEF SessionOK, InHand, Spoke
  <2>4. ASSUME NEW b \in 1..Len(asks) PROVE AskOK(b)'
    <3>1. AskOK(b)
      BY DEF VoiceInv
    <3>2. CASE b = a
      BY <1>1, <1>2, <2>1, <3>2 DEF AskOK
    <3>3. CASE b # a
      <4>1. \A v \in Voice: HeldBy(v, b) => HeldBy(v, b)'
        BY <1>1, <1>2, <1>3, <3>3 DEF HeldBy
      <4> QED
        BY <2>1, <3>1, <4>1 DEF AskOK
    <3> QED
      BY <3>2, <3>3
  <2> QED
    BY <1>4, <2>1, <2>2, <2>3, <2>4 DEF VoiceInv
<1>7. CASE asks[a].st = "answered"
  <2> DEFINE r == [asks[a] EXCEPT !.told = asks[a].told + 1]
             h == Append(heard[s], a)
  <2>1. r \in AskRecords /\ r.by = s /\ r.st = "answered"
    BY <1>2, <1>7 DEF AskRecords
  <2>2. asks' = [asks EXCEPT ![a] = r] /\ heard' = [heard EXCEPT ![s] = Last(h)]
    BY <1>2, <1>7 DEF Answer, VoiceTypeOK
  <2>3. a \in Nat /\ h \in Seq(Nat) /\ Len(h) = Len(heard[s]) + 1 /\ h[Len(heard[s]) + 1] = a
        /\ \A i \in 1..Len(heard[s]): h[i] = heard[s][i]
    BY <1>2 DEF VoiceTypeOK
  <2> HIDE DEF r, h, a
  <2>4. /\ Last(h) \in Seq(Nat) /\ Len(Last(h)) <= MaxTurns
        /\ \A i \in 1..Len(Last(h)): \E j \in 1..Len(h): Last(h)[i] = h[j]
    BY <2>3, LastIs
  <2>5. /\ asks' \in Seq(AskRecords) /\ Len(asks') = Len(asks) /\ asks'[a] = r
        /\ \A b \in 1..Len(asks): b # a => asks'[b] = asks[b]
    BY <1>2, <2>1, <2>2 DEF VoiceTypeOK
  <2>6. heard' \in [Voice -> Seq(Nat)] /\ heard'[s] = Last(h) /\ \A v \in Voice \ {s}: heard'[v] = heard[v]
    BY <1>2, <2>2, <2>4 DEF VoiceTypeOK
  <2>7. VoiceTypeOK'
    BY <1>1, <1>2, <1>3, <2>5, <2>6 DEF VoiceTypeOK
  <2>8. \A b \in 1..Len(asks): asks'[b].by = asks[b].by
    BY <1>2, <2>1, <2>5
  <2>9. ASSUME NEW v \in Voice \ {s} PROVE SessionOK(v)'
    <3>1. SessionOK(v)
      BY DEF VoiceInv
    <3> QED
      <4>1. turn'[v] = turn[v] /\ pend'[v] = pend[v] /\ heard'[v] = heard[v] /\ turn[v].ask # a /\ pend[v].ask # a
        BY <1>1, <1>3, <1>5, <2>6
      <4>2. InHand(v, turn[v])'
        BY <2>5, <3>1, <4>1 DEF SessionOK, InHand
      <4>3. InHand(v, pend[v])'
        BY <2>5, <3>1, <4>1 DEF SessionOK, InHand
      <4>4. Spoke(v)'
        BY <2>5, <2>8, <3>1, <4>1 DEF SessionOK, Spoke
      <4> QED
        BY <3>1, <4>1, <4>2, <4>3, <4>4 DEF SessionOK
  <2>10. Spoke(s)'
    <3>1. ASSUME NEW i \in 1..Len(Last(h)) PROVE Last(h)[i] \in 1..Len(asks) /\ asks[Last(h)[i]].by = s
      <4>1. PICK j \in 1..Len(h): Last(h)[i] = h[j]
        BY <2>4
      <4>2. j \in 1..Len(heard[s]) \/ j = Len(heard[s]) + 1
        BY <1>2, <2>3, SMTT(30)
      <4>3. \A k \in 1..Len(heard[s]): heard[s][k] \in 1..Len(asks) /\ asks[heard[s][k]].by = s
        BY <1>2 DEF SessionOK, Spoke
      <4> QED
        BY <1>2, <2>3, <4>1, <4>2, <4>3, ZenonT(60)
    <3> QED
      BY <2>4, <2>5, <2>6, <2>8, <3>1 DEF Spoke
  <2>11. SessionOK(s)'
    BY <1>1, <1>2, <1>3, <2>10, NothingIs DEF SessionOK, InHand
  <2>12. ASSUME NEW b \in 1..Len(asks) PROVE AskOK(b)'
    <3>1. AskOK(b)
      BY DEF VoiceInv
    <3>2. CASE b = a
      BY <2>1, <2>5, <3>2 DEF AskOK
    <3>3. CASE b # a
      <4>1. \A v \in Voice: HeldBy(v, b) => HeldBy(v, b)'
        BY <1>1, <1>2, <1>3, <3>3 DEF HeldBy, a
      <4> QED
        BY <2>5, <3>1, <3>3, <4>1 DEF AskOK
    <3> QED
      BY <3>2, <3>3
  <2> QED
    BY <1>4, <2>5, <2>7, <2>9, <2>11, <2>12 DEF VoiceInv
<1> QED
  BY <1>6, <1>7

\* store_pending makes room: never more than the limit, whoever has to go.
LEMMA RoomIsMade ==
  ASSUME VoiceInv, NEW s \in Voice, s \notin Held, NEW evicted \in Oldest(Held \ Outdated)
  PROVE  /\ evicted \subseteq Held
         /\ Cardinality((Held \ (Outdated \cup evicted)) \cup {s}) <= MaxPending
<1> USE VoiceAssumption
<1> DEFINE keep == Held \ Outdated
<1>1. IsFiniteSet(Held) /\ IsFiniteSet(keep)
  <2>1. IsFiniteSet(Held)
    BY FS_Subset DEF Held
  <2> QED
    BY <2>1, FS_Subset
<1>2. /\ Cardinality(keep) <= Cardinality(Held) /\ Cardinality(keep) \in Nat /\ Cardinality(Held) \in Nat
      /\ Cardinality(Held) <= MaxPending
  BY <1>1, FS_Subset, FS_CardinalityType DEF VoiceInv
<1>3. s \notin keep
  OBVIOUS
<1>4. CASE Cardinality(keep) < MaxPending
  <2>1. evicted = {}
    BY <1>4 DEF Oldest
  <2>2. (Held \ (Outdated \cup evicted)) \cup {s} = keep \cup {s}
    BY <2>1
  <2>3. Cardinality(keep \cup {s}) = Cardinality(keep) + 1
    BY <1>1, <1>3, FS_AddElement
  <2> QED
    BY <1>2, <1>4, <2>1, <2>2, <2>3
<1>5. CASE ~(Cardinality(keep) < MaxPending)
  <2>1. PICK v \in keep: evicted = {v}
    BY <1>5 DEF Oldest
  <2> DEFINE left == keep \ {v}
  <2>2. (Held \ (Outdated \cup evicted)) \cup {s} = left \cup {s}
    BY <2>1
  <2>3. IsFiniteSet(left) /\ Cardinality(left) = Cardinality(keep) - 1
    BY <1>1, FS_RemoveElement
  <2>4. Cardinality(left \cup {s}) = Cardinality(left) + 1
    BY <1>3, <2>3, FS_AddElement
  <2> QED
    BY <1>2, <2>1, <2>2, <2>3, <2>4
<1> QED
  BY <1>4, <1>5

\* A late answer is put aside: what is outdated, what has to make room and
\* what the session had aside before are aborted.
LEMMA DeadlineKeepsVoice ==
  ASSUME VoiceInv, NEW s \in Voice, Deadline(s)
  PROVE  VoiceInv'
<1> DEFINE a == turn[s].ask
           entry == [turn[s] EXCEPT !.created = beat]
<1>1. /\ a # 0 /\ UNCHANGED beat /\ StorePending(s, entry)
      /\ heard' = [heard EXCEPT ![s] = turn[s].hist] /\ turn' = [turn EXCEPT ![s] = Nothing]
  BY DEF Deadline, Idle, Still
<1>2. VoiceTypeOK /\ SessionOK(s) /\ pend[s].ask = 0 /\ turn[s].hist = heard[s] /\ heard[s] \in Seq(Nat)
      /\ s \notin Held /\ turn[s] \in Entries /\ HeldBy(s, a)
  BY <1>1 DEF VoiceInv, VoiceTypeOK, SessionOK, InHand, Held, HeldBy
<1>3. entry \in Entries /\ entry.ask = a /\ entry.hist = heard[s]
  BY <1>2 DEF Entries, VoiceTypeOK
<1>4. heard' = heard
  BY <1>1, <1>2 DEF VoiceTypeOK
<1>5. PICK evicted \in Oldest(Held \ Outdated):
        LET gone == Outdated \cup evicted \cup (Held \cap {s})
            stop == {pend[v].ask : v \in gone}
        IN  /\ pend' = [v \in Voice |-> IF v = s THEN entry ELSE IF v \in gone THEN Nothing ELSE pend[v]]
            /\ asks' = [x \in 1..Len(asks) |-> IF x \in stop THEN Stopped(asks, x)[x] ELSE asks[x]]
  BY <1>1 DEF StorePending
<1> DEFINE gone == Outdated \cup evicted
           B == {pend[v].ask : v \in gone}
<1>6. Outdated \cup evicted \cup (Held \cap {s}) = gone
  BY <1>2
<1>7. gone \subseteq Held /\ gone \subseteq Voice /\ s \notin gone
  BY <1>2, RoomIsMade DEF Outdated, Held
<1>8. /\ pend' = [v \in Voice |-> IF v = s THEN entry ELSE IF v \in gone THEN Nothing ELSE pend[v]]
      /\ asks' = [x \in 1..Len(asks) |-> IF x \in B THEN Stopped(asks, x)[x] ELSE asks[x]]
  BY <1>5, <1>6
<1> HIDE DEF entry, gone
<1>9. /\ turn' \in [Voice -> Entries] /\ turn'[s] = Nothing /\ \A v \in Voice \ {s}: turn'[v] = turn[v]
      /\ pend' \in [Voice -> Entries] /\ pend'[s] = entry
      /\ \A v \in Voice \ {s}: pend'[v] = IF v \in gone THEN Nothing ELSE pend[v]
  BY <1>1, <1>2, <1>3, <1>8, NothingIs DEF VoiceTypeOK
<1>10. ASSUME NEW b \in B
       PROVE  \E w \in gone: /\ w \in Voice /\ b = pend[w].ask /\ b # 0 /\ HeldBy(w, b) /\ turn[w].ask = 0
                             /\ b \in 1..Len(asks) /\ asks[b].told = 0
  <2>1. PICK w \in gone: b = pend[w].ask
    OBVIOUS
  <2>2. w \in Voice /\ b # 0 /\ HeldBy(w, b)
    BY <1>7, <2>1 DEF Held, HeldBy
  <2>3. b \in 1..Len(asks) /\ asks[b].told = 0
    BY <2>2, OneHolds
  <2>4. turn[w].ask = 0
    BY <2>1, <2>2 DEF VoiceInv, SessionOK
  <2> QED
    BY <2>1, <2>2, <2>3, <2>4
<1>11. LetGo(asks', B)
  <2>1. ASSUME NEW x \in 1..Len(asks)
        PROVE  /\ asks'[x] \in AskRecords /\ asks'[x].by = asks[x].by /\ asks'[x].told = asks[x].told
               /\ x \notin B => asks'[x] = asks[x]
               /\ x \in B => /\ ~(asks'[x].st = "running" /\ ~asks'[x].loose)
                             /\ asks'[x].st = "stopped" => asks[x].st \in {"running", "stopped"}
    <3>1. asks[x] \in AskRecords
      BY <1>2, AskFields
    <3>2. CASE x \notin B
      BY <1>8, <3>1, <3>2
    <3>3. CASE x \in B
      <4>1. asks'[x] = Stopped(asks, x)[x]
        BY <1>8, <3>3
      <4>2. LetGo(Stopped(asks, x), {x})
        BY <1>2, StopLetsGo
      <4>3. Stopped(asks, x)[x] \in AskRecords
        BY <4>2 DEF LetGo
      <4> QED
        BY <3>3, <4>1, <4>2, <4>3 DEF LetGo
    <3> QED
      BY <3>2, <3>3
  <2>2. Len(asks) \in Nat
    BY <1>2 DEF VoiceTypeOK
  <2>3. asks' \in Seq(AskRecords) /\ Len(asks') = Len(asks)
    <3>1. DOMAIN asks' = 1..Len(asks) /\ asks' = [x \in 1..Len(asks) |-> asks'[x]]
      BY <1>8
    <3> QED
      BY <2>1, <2>2, <3>1
  <2> QED
    BY <2>1, <2>2, <2>3 DEF LetGo
<1>12. Len(asks') = Len(asks)
  <2>1. DOMAIN asks' = 1..Len(asks) /\ asks' \in Seq(AskRecords) /\ Len(asks) \in Nat
    BY <1>2, <1>8, <1>11 DEF LetGo, VoiceTypeOK
  <2> QED
    BY <2>1
<1> HIDE DEF B
<1>13. VoiceTypeOK'
  BY <1>1, <1>2, <1>4, <1>9, <1>11 DEF VoiceTypeOK, LetGo
<1>14. Cardinality(Held') <= MaxPending
  <2>1. Held' = (Held \ (Outdated \cup evicted)) \cup {s}
    BY <1>1, <1>3, <1>9, NothingIs DEF Held, gone
  <2> QED
    BY <1>2, <2>1, RoomIsMade
<1>15. ASSUME NEW v \in Voice, NEW b \in B, turn'[v].ask = b \/ pend'[v].ask = b PROVE FALSE
  <2>1. PICK w \in gone: /\ w \in Voice /\ b = pend[w].ask /\ b # 0 /\ HeldBy(w, b) /\ turn[w].ask = 0
    BY <1>10
  <2>2. CASE v = s
    <3>1. b = a
      BY <1>3, <1>9, <1>15, <2>1, <2>2, NothingIs
    <3>2. w = s
      BY <1>2, <2>1, <3>1, OneHolds
    <3> QED
      BY <1>7, <2>1, <3>2
  <2>3. CASE v # s
    <3>1. HeldBy(v, b) /\ (pend'[v].ask = b => v \notin gone)
      BY <1>9, <1>15, <2>1, <2>3, NothingIs DEF HeldBy
    <3>2. v = w
      BY <2>1, <3>1, OneHolds
    <3> QED
      BY <1>9, <1>15, <2>1, <2>3, <3>1, <3>2
  <2> QED
    BY <2>2, <2>3
<1>16. \A b \in B: b \in 1..Len(asks) => asks[b].told = 0
  BY <1>10
<1>17. \A b \in 1..Len(asks): HeldBy(s, b) => pend'[s].ask = b
  BY <1>2, <1>3, <1>9 DEF HeldBy
<1>18. \A v \in Voice \ {s}: pend'[v] = pend[v] \/ (pend'[v] = Nothing /\ pend[v].ask \in B)
  BY <1>9 DEF B
<1>19. turn'[s].ask = 0 /\ pend'[s].ask \in {turn[s].ask, pend[s].ask} /\ pend'[s].hist = heard'[s]
  BY <1>3, <1>4, <1>9, NothingIs
<1> QED
  BY <1>4, <1>9, <1>11, <1>12, <1>13, <1>14, <1>15, <1>16, <1>17, <1>18, <1>19, HandsOn

LEMMA VoiceKeeps ==
  ASSUME VoiceInv, [VoiceNext]_voiceVars
  PROVE  VoiceInv'
<1>1. CASE UNCHANGED <<asks, pend, turn, heard>> /\ beat' \in Nat
  BY <1>1 DEF VoiceInv, VoiceTypeOK, SessionOK, InHand, Spoke, AskOK, HeldBy, Held
<1>2. CASE Beat \/ UNCHANGED voiceVars
  BY <1>1, <1>2 DEF Beat, voiceVars, VoiceInv, VoiceTypeOK
<1>3. CASE \E s \in Voice: Chat(s) \/ Question(s) \/ Yes(s) \/ Abandon(s) \/ Answer(s) \/ Deadline(s) \/ Lost(s)
  BY <1>3, ChatKeepsVoice, QuestionKeepsVoice, YesKeepsVoice, AbandonKeepsVoice, AnswerKeepsVoice,
     DeadlineKeepsVoice, LostKeepsVoice
<1> QED
  BY <1>2, <1>3, AskEndsKeepsVoice DEF VoiceNext

LEMMA VoiceStarts ==
  ASSUME VoiceInit PROVE VoiceInv
<1>1. VoiceTypeOK /\ \A s \in Voice: turn[s].ask = 0 /\ pend[s].ask = 0 /\ heard[s] = <<>>
  BY NothingIs DEF VoiceInit, VoiceTypeOK
<1>2. Held = {}
  BY <1>1 DEF Held
<1> QED
  BY <1>1, <1>2, FS_EmptySet, VoiceAssumption DEF VoiceInit, VoiceInv, SessionOK, InHand, Spoke, AskOK

(* Taking an answer up forgets no turn, a task is held once and by the session
   that asked, what was aborted reaches nobody, an answer is spoken once and to
   its own session, and no more is put aside than there is room for (alexa.rs). *)
THEOREM AnswersAreTrue == VoiceSpec => []VoiceIsTrue
<1>1. ASSUME VoiceInv PROVE VoiceIsTrue
  <2>1. NoTurnForgotten
    BY <1>1 DEF NoTurnForgotten, VoiceInv, SessionOK, InHand, Fresh
  <2>2. ASSUME NEW a \in 1..Len(asks)
        PROVE  /\ Holders(a) \subseteq {asks[a].by} /\ asks[a].told <= 1
               /\ \A s \in Voice : ~(turn[s].ask = a /\ pend[s].ask = a)
               /\ asks[a].st = "running" /\ ~asks[a].loose => Holders(a) # {}
               /\ asks[a].st = "stopped" => Holders(a) = {} /\ asks[a].told = 0
    <3>1. a # 0 /\ VoiceTypeOK /\ AskOK(a)
      BY <1>1 DEF VoiceInv
    <3>2. \A s \in Holders(a): s \in Voice /\ HeldBy(s, a)
      BY DEF Holders, HeldBy
    <3>3. \A s \in Holders(a): asks[a].by = s /\ asks[a].st # "stopped"
      BY <1>1, <3>1, <3>2, OneHolds
    <3>4. asks[a].told \in {0, 1}
      BY <3>1, AskFields
    <3>5. \A s \in Voice : ~(turn[s].ask = a /\ pend[s].ask = a)
      BY <1>1, <3>1 DEF VoiceInv, SessionOK
    <3>6. asks[a].st = "running" /\ ~asks[a].loose => Holders(a) # {}
      BY <3>1 DEF AskOK, HeldBy, Holders
    <3> QED
      BY <3>1, <3>3, <3>4, <3>5, <3>6 DEF AskOK
  <2>3. \A s \in Voice : \A i \in 1..Len(heard[s]) : asks[heard[s][i]].by = s
    BY <1>1 DEF VoiceInv, SessionOK, Spoke
  <2> QED
    BY <1>1, <2>1, <2>2, <2>3 DEF VoiceIsTrue, AnswersReachTheirAsker, VoiceInv
<1> QED
  BY <1>1, VoiceStarts, VoiceKeeps, PTL DEF VoiceSpec

(* ---------------------------------------------------------------------- *)
(* The registries of what is observed of APIs                              *)

RegistryInv ==
  /\ lastSeen \in [Route -> {"unknown", "ok", "failed"}]
  /\ dirtyObs \in Nat
  /\ RegistriesAreTrue

LEMMA CallKeepsRegistry ==
  ASSUME RegistryInv, NEW r \in Route, NEW c, NEW ok \in BOOLEAN, NEW h,
         ObserveCall(r, c, ok, h)
  PROVE  RegistryInv'
<1>1. dirtyObs' \in Nat /\ dirtyObs' < MaxDirty
  <2>1. SchemaObserves(IF ok THEN 0 ELSE h)
    BY DEF ObserveCall
  <2> QED
    BY <2>1, SchemaAssumption DEF SchemaObserves, SaveDue, RegistryInv, RegistriesAreTrue
<1>2. CASE ok
  <2>1. ObserveRecovery(r)
    BY <1>2 DEF ObserveCall
  <2> QED
    BY <1>1, <2>1 DEF ObserveRecovery, Recovered1, SaveIssues, RegistryInv, RegistriesAreTrue
<1>3. CASE ~ok
  <2>1. ObserveFailure(r, c)
    BY <1>3 DEF ObserveCall
  <2>2. issues' = issues \cup {<<r, c>>} /\ handed' = version'
    BY <2>1 DEF ObserveFailure, SaveIssues
  <2>3. \A q \in Route : (\E i \in issues' : i[1] = q) <=> q = r \/ \E i \in issues : i[1] = q
    <3>1. <<r, c>> \in issues' /\ <<r, c>>[1] = r
      BY <2>2
    <3>2. \A i \in issues' : i \in issues \/ i[1] = r
      BY <2>2
    <3> QED
      BY <2>2, <3>1, <3>2
  <2> QED
    BY <1>1, <2>1, <2>2, <2>3 DEF ObserveFailure, RegistryInv, RegistriesAreTrue
<1> QED
  BY <1>2, <1>3

(* The issues that are active are those of the routes that last failed, every change of
   them was handed to a save, and fewer than MaxDirty observations wait to be saved, for
   any routes, categories and outcomes of the saves (observe_failure, observe_recovery,
   save_request_if_due, configure_persistence). *)
THEOREM RegistriesTrue == RegistrySpec => []RegistriesAreTrue
<1>1. RegistryInit => RegistryInv
  BY SchemaAssumption DEF RegistryInit, RegistryInv, RegistriesAreTrue, SchemaAssumption
<1>2. RegistryInv /\ [RegistryNext]_registryVars => RegistryInv'
  <2> SUFFICES ASSUME RegistryInv, [RegistryNext]_registryVars PROVE RegistryInv'
    OBVIOUS
  <2> USE SchemaAssumption DEF SchemaAssumption
  <2>1. ASSUME NEW r \in Route, NEW c \in Trouble, NEW ok \in BOOLEAN, NEW h \in Hint,
               ObserveCall(r, c, ok, h)
        PROVE  RegistryInv'
    BY <2>1, CallKeepsRegistry
  <2>2. ASSUME UNCHANGED <<issues, version, handed, lastSeen, dirtyObs>> PROVE RegistryInv'
    BY <2>2 DEF RegistryInv, RegistriesAreTrue
  <2>3. ASSUME NEW s \in saves, NEW ok \in BOOLEAN, WriteIssues(s, ok) PROVE RegistryInv'
    BY <2>2, <2>3 DEF WriteIssues, schemaVars
  <2>4. ASSUME NEW s \in saves, NEW result \in {"ok", "crowded", "failed"}, Upsert(s, result)
        PROVE  RegistryInv'
    BY <2>2, <2>4 DEF Upsert, schemaVars
  <2>5. ASSUME NEW s \in schemaSaves, NEW ok \in BOOLEAN, WriteSchema(s, ok) PROVE RegistryInv'
    BY <2>2, <2>5 DEF WriteSchema, issueVars
  <2>6. CASE RegistryTick
    BY <2>2, <2>6 DEF RegistryTick, issueVars, schemaVars
  <2>7. ASSUME NEW okI \in BOOLEAN, NEW okS \in BOOLEAN, RegistryRestart(okI, okS) PROVE RegistryInv'
    BY <2>7 DEF RegistryRestart, RegistryInv, RegistriesAreTrue
  <2>8. CASE UNCHANGED registryVars
    BY <2>2, <2>8 DEF registryVars, issueVars, schemaVars
  <2> QED
    BY <2>1, <2>3, <2>4, <2>5, <2>6, <2>7, <2>8 DEF RegistryNext
<1>3. RegistryInv => RegistriesAreTrue
  BY DEF RegistryInv
<1> QED
  BY <1>1, <1>2, <1>3, PTL DEF RegistrySpec

(* ---------------------------------------------------------------------- *)
(* The metadata of the lake                                                *)

\* A metadata that owes its build nothing was written when a bootstrap of it came to its
\* end, and while a bootstrap is owed none is on its way to the file.
Metadata == [done: BOOLEAN, build: Build \cup {0}, schema: Build \cup {0},
             status: {"none", "running", "ok", "failed"}]
MetaInv ==
  /\ metaData \in Metadata /\ metaDisk \in Metadata /\ writing \in Metadata
  /\ build \in Build
  /\ attempt \in [Build -> {"none", "running", "ok", "failed", "interrupted"}]
  /\ \A m \in {metaDisk, writing}, b \in Build :
       BootstrapReason(m, b) = "none" =>
         attempt[b] = "ok" /\ (owed # "none" => b # build)
  /\ FilledByThisBuild

(* No failure, interruption, torn file or other build is taken for a filled lake: for any
   builds and any order of writes and stops (mark_bootstrap_started,
   mark_bootstrap_completed, mark_bootstrap_failed, compute_bootstrap_reason). *)
THEOREM LakeFilled == MetaSpec => []FilledByThisBuild
<1>1. MetaInit => MetaInv
  BY MetaAssumption DEF MetaInit, MetaInv, Metadata, FilledByThisBuild, BootstrapReason, NoMeta, MetaAssumption
<1>2. MetaInv /\ [MetaNext]_metaVars => MetaInv'
  <2> SUFFICES ASSUME MetaInv, [MetaNext]_metaVars PROVE MetaInv'
    OBVIOUS
  <2>a. \A b \in Build : BootstrapReason(NoMeta, b) # "none"
    BY DEF NoMeta, BootstrapReason
  <2>b. \A m, b : BootstrapReason(m, b) = "none" =>
          m.build = b /\ m.schema = b /\ m.status \notin {"failed", "running"}
    BY DEF BootstrapReason
  <2>c. NoMeta \in Metadata
    BY DEF NoMeta, Metadata
  <2>1. CASE MarkStarted
    <3>1. metaData' \in Metadata /\ metaData'.status = "running"
      BY <2>1 DEF MarkStarted, MetaInv, Metadata
    <3>2. \A b \in Build : BootstrapReason(writing', b) # "none"
      BY <2>1, <2>b, <3>1 DEF MarkStarted
    <3> QED
      BY <2>1, <3>1, <3>2 DEF MarkStarted, MetaInv, FilledByThisBuild
  <2>2. CASE MarkCompleted
    <3>1. metaData' \in Metadata /\ metaData'.build = build
      BY <2>2 DEF MarkCompleted, MetaInv, Metadata
    <3> QED
      BY <2>2, <2>b, <3>1 DEF MarkCompleted, MetaInv, FilledByThisBuild
  <2>3. CASE MarkFailed
    <3>1. metaData' \in Metadata /\ metaData'.status = "failed"
      BY <2>3 DEF MarkFailed, MetaInv, Metadata
    <3>2. \A b \in Build : BootstrapReason(writing', b) # "none"
      BY <2>3, <2>b, <3>1 DEF MarkFailed
    <3> QED
      BY <2>3, <3>1, <3>2 DEF MarkFailed, MetaInv, FilledByThisBuild
  <2>4. ASSUME NEW ok \in BOOLEAN, PersistMetadata(ok) PROVE MetaInv'
    BY <2>4, <2>a, <2>c DEF PersistMetadata, MetaInv, FilledByThisBuild
  <2>5. ASSUME NEW b \in Build, NEW torn \in BOOLEAN, MetaRestart(b, torn) PROVE MetaInv'
    <3>1. metaDisk' \in {metaDisk, NoMeta} /\ writing' = NoMeta /\ owed' = BootstrapReason(metaDisk', b)
      BY <2>5 DEF MetaRestart
    <3>2. \A c \in Build : attempt[c] = "ok" => attempt'[c] = "ok"
      BY <2>5 DEF MetaRestart, MetaInv
    <3> QED
      BY <2>5, <2>a, <2>c, <3>1, <3>2 DEF MetaRestart, MetaInv, FilledByThisBuild
  <2>6. CASE UNCHANGED metaVars
    BY <2>6 DEF metaVars, MetaInv, FilledByThisBuild
  <2> QED
    BY <2>1, <2>2, <2>3, <2>4, <2>5, <2>6 DEF MetaNext
<1>3. MetaInv => FilledByThisBuild
  BY DEF MetaInv
<1> QED
  BY <1>1, <1>2, <1>3, PTL DEF MetaSpec

(* ---------------------------------------------------------------------- *)
(* The samples of the lake                                                 *)

\* One sample per bucket.
Distinct(c) == \A x, y \in c : BucketOf(x) = BucketOf(y) => x = y
Times(S, s) == {x[2] : x \in {y \in S : y[1] = s}}
StoredSamples == LakeSymbol \X (0 .. second)
Task == [do: {"persist"}, what: SUBSET StoredSamples] \cup [do: {"load"}, what: SUBSET LakeSymbol]

LakeTypeOK ==
  /\ second \in Nat
  /\ cache \in [LakeSymbol -> SUBSET (0 .. second)]
  /\ batch \in SUBSET StoredSamples /\ lines \in SUBSET StoredSamples /\ rows \in SUBSET StoredSamples
  /\ merged \in SUBSET StoredSamples
  /\ mirror \in Seq(Task)

LakeInv ==
  /\ LakeTypeOK
  /\ \A s \in LakeSymbol : Distinct(cache[s])
  /\ \A x \in merged : \E c \in cache[x[1]] : BucketOf(c) = BucketOf(x[2]) /\ c >= x[2]

\* The greatest of a bounded set of numbers.
LEMMA GreatestOf ==
  ASSUME NEW n \in Nat, NEW S \in SUBSET (0 .. n), S # {}
  PROVE  Max(S) \in S /\ \A x \in S : x <= Max(S)
<1> DEFINE K == {k \in 0 .. n : n - k \in S}
<1>1. K # {} /\ K \in SUBSET Nat
  <2>1. PICK x \in S : x \in 0 .. n
    OBVIOUS
  <2>2. n - x \in 0 .. n /\ n - (n - x) = x
    BY <2>1
  <2>3. n - (n - x) \in S
    BY <2>1, <2>2
  <2>4. n - x \in K
    BY <2>2, <2>3
  <2>5. K \subseteq 0 .. n /\ 0 .. n \subseteq Nat
    OBVIOUS
  <2> QED
    BY <2>4, <2>5
<1>2. PICK k \in K : \A m \in K : ~(<<m, k>> \in OpToRel(<, Nat))
  BY <1>1, WFMin, NatLessThanWellFounded
<1>3. \A m \in K : ~(m < k)
  BY <1>1, <1>2 DEF OpToRel
<1>4. n - k \in S /\ \A x \in S : n - k >= x
  <2> SUFFICES ASSUME NEW x \in S PROVE n - k >= x
    BY <1>2
  <2>a. k \in 0 .. n /\ x \in 0 .. n
    BY <1>2
  <2>0. x \in 0 .. n /\ k \in 0 .. n /\ n - x \in 0 .. n /\ n - (n - x) = x
    BY <2>a
  <2>1. n - (n - x) \in S
    BY <2>0
  <2>2. n - x \in K
    BY <2>0, <2>1
  <2>3. ~(n - x < k)
    BY <1>3, <2>2
  <2> QED
    BY <2>0, <2>3
<1>5. Max(S) \in S /\ \A x \in S : Max(S) >= x
  BY <1>4 DEF Max
<1> QED
  BY <1>5

LEMMA HorizonIsNumber == Horizon \in Int
<1> DEFINE m == Min({2 * LongWindow, Retention})
<1>0. 2 * LongWindow \in Nat /\ Retention \in Nat /\ LongWindow \in Nat
  BY LakeAssumption DEF LakeAssumption
<1>1. m \in {2 * LongWindow, Retention}
  <2>1. \E x \in {2 * LongWindow, Retention} : \A y \in {2 * LongWindow, Retention} : x <= y
    BY <1>0
  <2> QED
    BY <2>1 DEF Min
<1>2. m \in Nat
  BY <1>0, <1>1
<1> HIDE DEF m
<1>3. \E x \in {LongWindow, m} : \A y \in {LongWindow, m} : x >= y
  BY <1>0, <1>2
<1>4. Max({LongWindow, m}) \in {LongWindow, m}
  BY <1>3 DEF Max
<1> QED
  BY <1>0, <1>2, <1>4 DEF Horizon, m

\* A merge keeps one sample per bucket, and none is lost but to a newer one of its bucket
\* or to the horizon.
LEMMA MergeOfOne ==
  ASSUME NEW c \in SUBSET Nat, NEW S \in SUBSET Nat, NEW replace \in BOOLEAN, Distinct(c), Distinct(S)
  PROVE  /\ MergeCache(c, S, replace) \subseteq c \cup S
         /\ Distinct(MergeCache(c, S, replace))
         /\ \A e \in c \cup S :
              (e \in c \/ replace) /\ (\A t \in S : e >= t - Horizon) =>
                \E d \in MergeCache(c, S, replace) : BucketOf(d) = BucketOf(e) /\ d >= e
<1> DEFINE older(x) == \E t \in S : BucketOf(t) = BucketOf(x) /\ replace /\ t >= x
           news == {t \in S : \A x \in c : BucketOf(x) = BucketOf(t) => replace /\ t >= x}
           all == {x \in c : ~older(x)} \cup news
<1>1. MergeCache(c, S, replace) = {x \in all : \A t \in S : x >= t - Horizon}
  BY DEF MergeCache
<1>2. Distinct(all) /\ all \subseteq c \cup S
  BY DEF Distinct
<1>3. ASSUME NEW e \in c \cup S, e \in c \/ replace
      PROVE  \E d \in all : BucketOf(d) = BucketOf(e) /\ d >= e
  <2>1. CASE e \in c /\ ~older(e)
    BY <2>1
  <2>2. CASE e \in c /\ older(e)
    <3>1. PICK t \in S : BucketOf(t) = BucketOf(e) /\ replace /\ t >= e
      BY <2>2
    <3>2. t \in news
      BY <2>2, <3>1 DEF Distinct
    <3> QED
      BY <3>1, <3>2
  <2>3. CASE e \in S /\ replace
    <3>1. CASE e \in news
      BY <3>1
    <3>2. ASSUME NEW x \in c, BucketOf(x) = BucketOf(e), ~(e >= x) PROVE \E d \in all : BucketOf(d) = BucketOf(e) /\ d >= e
      <4>1. ~older(x)
        BY <2>3, <3>2 DEF Distinct
      <4> QED
        BY <3>2, <4>1
    <3> QED
      BY <2>3, <3>1, <3>2
  <2> QED
    BY <1>3, <2>1, <2>2, <2>3
<1> HIDE DEF all
<1>4. ASSUME NEW e \in c \cup S, e \in c \/ replace, \A t \in S : e >= t - Horizon
      PROVE  \E d \in MergeCache(c, S, replace) : BucketOf(d) = BucketOf(e) /\ d >= e
  <2>1. PICK d \in all : BucketOf(d) = BucketOf(e) /\ d >= e
    BY <1>3, <1>4
  <2>2. \A t \in S : d >= t - Horizon
    BY <1>2, <1>4, <2>1, HorizonIsNumber
  <2> QED
    BY <1>1, <2>1, <2>2
<1> QED
  BY <1>1, <1>2, <1>4 DEF Distinct

LEMMA MergeOfAll ==
  ASSUME LakeInv, NEW S \in SUBSET StoredSamples, \A s \in LakeSymbol : Distinct(Times(S, s)),
         NEW replace \in BOOLEAN, second' = second, cache' = Merge(S, replace),
         merged' = Within(IF replace THEN merged \cup S ELSE merged, S)
  PROVE  /\ cache' \in [LakeSymbol -> SUBSET (0 .. second')] /\ merged' \in SUBSET StoredSamples'
         /\ \A s \in LakeSymbol : Distinct(cache'[s])
         /\ \A x \in merged' : \E c \in cache'[x[1]] : BucketOf(c) = BucketOf(x[2]) /\ c >= x[2]
<1> DEFINE M == IF replace THEN merged \cup S ELSE merged
<1>0. /\ second \in Nat /\ cache \in [LakeSymbol -> SUBSET (0 .. second)] /\ StoredSamples' = StoredSamples
      /\ M \in SUBSET StoredSamples /\ merged' = {x \in M : \A y \in S : y[1] = x[1] => x[2] >= y[2] - Horizon}
  BY DEF LakeInv, LakeTypeOK, StoredSamples, Within
<1>1. \A s \in LakeSymbol : cache'[s] = MergeCache(cache[s], Times(S, s), replace)
  BY DEF Merge, Times
<1>2. \A s \in LakeSymbol : Times(S, s) \in SUBSET (0 .. second)
  BY DEF Times, StoredSamples
<1>3. ASSUME NEW s \in LakeSymbol
      PROVE  /\ cache'[s] \in SUBSET (0 .. second) /\ Distinct(cache'[s])
             /\ \A e \in cache[s] \cup Times(S, s) :
                  (e \in cache[s] \/ replace) /\ (\A t \in Times(S, s) : e >= t - Horizon) =>
                    \E d \in cache'[s] : BucketOf(d) = BucketOf(e) /\ d >= e
  <2>1. Distinct(cache[s]) /\ cache[s] \in SUBSET (0 .. second)
    BY <1>0 DEF LakeInv
  <2>2. cache[s] \in SUBSET Nat /\ Times(S, s) \in SUBSET Nat /\ Distinct(Times(S, s))
    BY <1>0, <1>2, <2>1
  <2>3. /\ MergeCache(cache[s], Times(S, s), replace) \subseteq cache[s] \cup Times(S, s)
        /\ Distinct(MergeCache(cache[s], Times(S, s), replace))
        /\ \A e \in cache[s] \cup Times(S, s) :
              (e \in cache[s] \/ replace) /\ (\A t \in Times(S, s) : e >= t - Horizon) =>
                \E d \in MergeCache(cache[s], Times(S, s), replace) : BucketOf(d) = BucketOf(e) /\ d >= e
    BY <2>1, <2>2, MergeOfOne
  <2> QED
    BY <1>1, <1>2, <2>1, <2>3
<1>4. cache' \in [LakeSymbol -> SUBSET (0 .. second)]
  BY <1>3 DEF Merge
<1>5. ASSUME NEW x \in merged' PROVE \E c \in cache'[x[1]] : BucketOf(c) = BucketOf(x[2]) /\ c >= x[2]
  <2>0. x \in M /\ x[1] \in LakeSymbol /\ x[2] \in 0 .. second
    BY <1>0, <1>5 DEF StoredSamples
  <2>1. \A t \in Times(S, x[1]) : x[2] >= t - Horizon
    BY <1>0, <1>5 DEF Times
  <2>2. CASE x \in merged
    <3>1. PICK e \in cache[x[1]] : BucketOf(e) = BucketOf(x[2]) /\ e >= x[2]
      BY <2>2 DEF LakeInv
    <3>2. \A t \in Times(S, x[1]) : e >= t - Horizon
      BY <1>0, <1>2, <2>0, <2>1, <3>1, HorizonIsNumber
    <3>3. PICK d \in cache'[x[1]] : BucketOf(d) = BucketOf(e) /\ d >= e
      BY <1>3, <2>0, <3>1, <3>2
    <3>4. d \in Nat /\ e \in Nat
      BY <1>0, <1>3, <2>0, <3>1, <3>3
    <3> QED
      BY <2>0, <3>1, <3>3, <3>4
  <2>3. CASE replace /\ x \in S
    <3>1. x[2] \in Times(S, x[1])
      BY <2>3 DEF Times
    <3> QED
      BY <1>3, <2>0, <2>1, <2>3, <3>1
  <2> QED
    BY <2>0, <2>2, <2>3
<1> QED
  BY <1>0, <1>3, <1>4, <1>5

\* What happens elsewhere leaves the cache and what was merged into it alone.
LEMMA LakeStays ==
  ASSUME LakeInv, LakeTypeOK', UNCHANGED <<cache, merged>>
  PROVE  LakeInv'
BY DEF LakeInv

\* Time passes, and what is stored is still of the past.
LEMMA StoredGrows ==
  ASSUME LakeTypeOK, second' \in Nat, second' >= second
  PROVE  /\ StoredSamples \subseteq StoredSamples' /\ Task \subseteq Task'
         /\ cache \in [LakeSymbol -> SUBSET (0 .. second')] /\ mirror \in Seq(Task')
<1>1. 0 .. second \subseteq 0 .. second'
  BY DEF LakeTypeOK
<1>2. StoredSamples \subseteq StoredSamples'
  BY <1>1 DEF StoredSamples
<1>3. Task \subseteq Task'
  BY <1>2 DEF Task
<1> QED
  BY <1>1, <1>2, <1>3 DEF LakeTypeOK

\* Of a symbol the newest of each bucket, one.
LEMMA NewestIsDistinct ==
  ASSUME NEW S \in SUBSET StoredSamples, second \in Nat, NEW s \in LakeSymbol
  PROVE  Distinct(Times(DedupeBySymbol(S), s))
<1> DEFINE N == DedupeBySymbol(S)
<1>1. \A x, y \in N : x[1] = y[1] /\ BucketOf(x[2]) = BucketOf(y[2]) => x[2] = y[2]
  <2> SUFFICES ASSUME NEW x \in N, NEW y \in N, x[1] = y[1], BucketOf(x[2]) = BucketOf(y[2])
               PROVE  x[2] = y[2]
    OBVIOUS
  <2>1. x \in S /\ y \in S /\ BySymbol(x) = BySymbol(y)
    BY DEF DedupeBySymbol, Newest, BySymbol
  <2>2. y[2] <= x[2] /\ x[2] <= y[2]
    BY <2>1 DEF DedupeBySymbol, Newest
  <2>3. x[2] \in Nat /\ y[2] \in Nat
    BY <2>1 DEF StoredSamples
  <2> QED
    BY <2>2, <2>3
<1> QED
  BY <1>1 DEF Times, Distinct

LEMMA TaskSent ==
  ASSUME LakeTypeOK, NEW task \in Task
  PROVE  Send(task) \in Seq(Task)
BY DEF Send, LakeTypeOK

LEMMA IngestKeeps ==
  ASSUME LakeInv, NEW T \in SUBSET LakeSymbol, NEW t \in 1 .. (second + 1), IngestSnapshots(T \X {t})
  PROVE  LakeInv'
<1>0. /\ second' = second /\ UNCHANGED <<lines, rows, mirror>>
      /\ batch' = DedupeBySymbol(Sampled(T \X {t})) /\ cache' = Merge(batch', TRUE)
      /\ merged' = Within(merged \cup batch', batch')
  BY DEF IngestSnapshots
<1>1. Sampled(T \X {t}) \in SUBSET StoredSamples /\ second \in Nat
  BY DEF Sampled, StoredSamples, LakeInv, LakeTypeOK
<1>2. batch' \in SUBSET StoredSamples
  BY <1>0, <1>1 DEF DedupeBySymbol, Newest
<1>3. \A s \in LakeSymbol : Distinct(Times(batch', s))
  BY <1>0, <1>1, NewestIsDistinct
<1>4. /\ cache' \in [LakeSymbol -> SUBSET (0 .. second')] /\ merged' \in SUBSET StoredSamples'
      /\ \A s \in LakeSymbol : Distinct(cache'[s])
      /\ \A x \in merged' : \E c \in cache'[x[1]] : BucketOf(c) = BucketOf(x[2]) /\ c >= x[2]
  BY <1>0, <1>2, <1>3, MergeOfAll
<1>5. StoredSamples' = StoredSamples /\ Task' = Task
  BY <1>0 DEF StoredSamples, Task
<1> QED
  BY <1>0, <1>1, <1>2, <1>4, <1>5 DEF LakeInv, LakeTypeOK

LEMMA ReadKeeps ==
  ASSUME LakeInv, NEW r \in LakeReader, NEW ok \in BOOLEAN, reading[r] \subseteq LakeSymbol, ReadFile(r, ok)
  PROVE  LakeInv'
<1>0. /\ second' = second /\ UNCHANGED <<lines, rows, batch>>
      /\ mirror' = Send([do |-> "load", what |-> reading[r]])
  BY DEF ReadFile
<1>1. PICK D \in Dedupe(FileRead(reading[r])) :
        /\ cache' = IF ok THEN Merge(D, TRUE) ELSE cache
        /\ merged' = IF ok THEN Within(merged \cup D, D) ELSE merged
  BY DEF ReadFile
<1>2. StoredSamples' = StoredSamples /\ Task' = Task /\ mirror' \in Seq(Task)
  <2>1. [do |-> "load", what |-> reading[r]] \in Task
    BY DEF Task
  <2> QED
    BY <1>0, <2>1, TaskSent DEF StoredSamples, Task, LakeInv
<1>3. CASE ~ok
  <2>1. cache' = cache /\ merged' = merged
    BY <1>1, <1>3
  <2>2. LakeTypeOK'
    BY <1>0, <1>2, <2>1 DEF LakeInv, LakeTypeOK
  <2> QED
    BY <2>1, <2>2, LakeStays
<1>4. CASE ok
  <2>1. D \in SUBSET StoredSamples /\ \A x, y \in D : BucketOf(x[2]) = BucketOf(y[2]) => x = y
    BY <1>1 DEF Dedupe, Newest, ByBucket, FileRead, LakeInv, LakeTypeOK
  <2>2. \A s \in LakeSymbol : Distinct(Times(D, s))
    BY <2>1 DEF Distinct, Times
  <2>3. cache' = Merge(D, TRUE) /\ merged' = Within(merged \cup D, D)
    BY <1>1, <1>4
  <2>4. /\ cache' \in [LakeSymbol -> SUBSET (0 .. second')] /\ merged' \in SUBSET StoredSamples'
        /\ \A s \in LakeSymbol : Distinct(cache'[s])
        /\ \A x \in merged' : \E c \in cache'[x[1]] : BucketOf(c) = BucketOf(x[2]) /\ c >= x[2]
    BY <1>0, <2>1, <2>2, <2>3, MergeOfAll
  <2> QED
    BY <1>0, <1>2, <2>4 DEF LakeInv, LakeTypeOK
<1> QED
  BY <1>3, <1>4

LEMMA MirrorLoadKeeps ==
  ASSUME LakeInv, NEW S \in SUBSET LakeSymbol, MirrorLoad(S)
  PROVE  LakeInv'
<1> DEFINE found == DedupeBySymbol(FoundRows(S))
<1>0. /\ second' = second /\ UNCHANGED <<lines, rows, batch>> /\ mirror # <<>> /\ mirror' = Tail(mirror)
      /\ cache' = Merge(found, FALSE) /\ merged' = Within(merged, found)
  BY DEF MirrorLoad
<1>1. FoundRows(S) \in SUBSET StoredSamples /\ second \in Nat
  BY DEF FoundRows, LakeInv, LakeTypeOK
<1>2. found \in SUBSET StoredSamples
  BY <1>1 DEF DedupeBySymbol, Newest
<1>3. \A s \in LakeSymbol : Distinct(Times(found, s))
  BY <1>1, NewestIsDistinct
<1> HIDE DEF found
<1>4. /\ cache' \in [LakeSymbol -> SUBSET (0 .. second')] /\ merged' \in SUBSET StoredSamples'
      /\ \A s \in LakeSymbol : Distinct(cache'[s])
      /\ \A x \in merged' : \E c \in cache'[x[1]] : BucketOf(c) = BucketOf(x[2]) /\ c >= x[2]
  BY <1>0, <1>2, <1>3, MergeOfAll
<1>5. StoredSamples' = StoredSamples /\ Task' = Task /\ mirror' \in Seq(Task)
  BY <1>0 DEF StoredSamples, Task, LakeInv, LakeTypeOK
<1> QED
  BY <1>0, <1>1, <1>4, <1>5 DEF LakeInv, LakeTypeOK

\* The file, the mirror's rows and its queue hold samples of the past.
LEMMA WritesKeep ==
  ASSUME LakeInv,
         \/ \E W \in SUBSET batch, ok \in BOOLEAN : AppendSamples(W, ok)
         \/ \E ok \in BOOLEAN : MirrorSchema(ok)
         \/ \E ok \in BOOLEAN, prune \in BOOLEAN : MirrorPersist(ok, prune)
         \/ LakeTick
  PROVE  LakeInv'
<1>1. ASSUME NEW W \in SUBSET batch, NEW ok \in BOOLEAN, AppendSamples(W, ok) PROVE LakeInv'
  <2>0. /\ UNCHANGED <<second, cache, merged, rows>> /\ lines' = lines \cup W /\ batch' = {}
        /\ mirror' = IF ok THEN Send([do |-> "persist", what |-> batch]) ELSE mirror
    BY <1>1 DEF AppendSamples, Appended
  <2>1. [do |-> "persist", what |-> batch] \in Task /\ StoredSamples' = StoredSamples /\ Task' = Task
    BY <2>0 DEF Task, StoredSamples, LakeInv, LakeTypeOK
  <2>2. Send([do |-> "persist", what |-> batch]) \in Seq(Task)
    BY <2>1, TaskSent DEF LakeInv
  <2>3. LakeTypeOK'
    BY <2>0, <2>1, <2>2 DEF LakeInv, LakeTypeOK
  <2> QED
    BY <2>0, <2>3, LakeStays
<1>2. ASSUME NEW ok \in BOOLEAN, MirrorSchema(ok) PROVE LakeInv'
  <2>0. /\ UNCHANGED <<second, cache, merged, rows, lines, batch>>
        /\ mirror # <<>> /\ mirror' \in {mirror, Tail(mirror)}
    BY <1>2 DEF MirrorSchema
  <2>a. mirror \in Seq(Task) /\ Tail(mirror) \in Seq(Task)
    BY <2>0 DEF LakeInv, LakeTypeOK
  <2>b. mirror' \in Seq(Task)
    BY <2>0, <2>a
  <2>1. StoredSamples' = StoredSamples /\ Task' = Task /\ mirror' \in Seq(Task)
    BY <2>0, <2>b DEF StoredSamples, Task
  <2>2. LakeTypeOK'
    BY <2>0, <2>1 DEF LakeInv, LakeTypeOK
  <2> QED
    BY <2>0, <2>2, LakeStays
<1>3. ASSUME NEW ok \in BOOLEAN, NEW prune \in BOOLEAN, MirrorPersist(ok, prune) PROVE LakeInv'
  <2>0. /\ UNCHANGED <<second, cache, merged, lines, batch>>
        /\ mirror # <<>> /\ mirror' = Tail(mirror) /\ Head(mirror).do = "persist"
        /\ rows' \subseteq rows \cup Head(mirror).what
    BY <1>3 DEF MirrorPersist, Upserted, Pruned
  <2>1. StoredSamples' = StoredSamples /\ Task' = Task /\ mirror' \in Seq(Task) /\ Head(mirror) \in Task
    BY <2>0 DEF StoredSamples, Task, LakeInv, LakeTypeOK
  <2>2. Head(mirror).what \in SUBSET StoredSamples
    BY <2>0, <2>1 DEF Task
  <2>3. LakeTypeOK'
    BY <2>0, <2>1, <2>2 DEF LakeInv, LakeTypeOK
  <2> QED
    BY <2>0, <2>3, LakeStays
<1>4. CASE LakeTick
  <2>0. UNCHANGED <<cache, merged, lines, rows, batch, mirror>> /\ second' = second + 1 /\ second \in Nat
    BY <1>4 DEF LakeTick, LakeInv, LakeTypeOK
  <2>1. /\ StoredSamples \subseteq StoredSamples' /\ cache \in [LakeSymbol -> SUBSET (0 .. second')]
        /\ mirror \in Seq(Task')
    BY <2>0, StoredGrows DEF LakeInv
  <2>2. LakeTypeOK'
    BY <2>0, <2>1 DEF LakeInv, LakeTypeOK
  <2> QED
    BY <2>0, <2>2, LakeStays
<1> QED
  BY <1>1, <1>2, <1>3, <1>4

\* A reader has claimed symbols of the lake.
ReadersInv == reading \in [LakeReader -> SUBSET LakeSymbol]

LEMMA LakeInvariant == LakeSpec => [](LakeInv /\ ReadersInv)
<1>1. LakeInit => LakeInv /\ ReadersInv
  BY DEF LakeInit, LakeInv, LakeTypeOK, ReadersInv, Distinct
<1>2. LakeInv /\ ReadersInv /\ [LakeNext]_lakeVars => (LakeInv /\ ReadersInv)'
  <2> SUFFICES ASSUME LakeInv, ReadersInv, [LakeNext]_lakeVars PROVE LakeInv' /\ ReadersInv'
    OBVIOUS
  <2>1. ASSUME NEW T \in SUBSET LakeSymbol, NEW t \in 1 .. (second + 1), IngestSnapshots(T \X {t})
        PROVE  LakeInv' /\ ReadersInv'
    BY <2>1, IngestKeeps DEF IngestSnapshots, ReadersInv
  <2>2. ASSUME NEW W \in SUBSET batch, NEW ok \in BOOLEAN, AppendSamples(W, ok)
        PROVE  LakeInv' /\ ReadersInv'
    BY <2>2, WritesKeep DEF AppendSamples, ReadersInv
  <2>3. ASSUME NEW r \in LakeReader, NEW T \in SUBSET LakeSymbol, ClaimSymbols(r, T)
        PROVE  LakeInv' /\ ReadersInv'
    <3>1. UNCHANGED <<second, cache, merged, lines, rows, batch, mirror>> /\ ReadersInv'
      BY <2>3 DEF ClaimSymbols, ReadersInv
    <3>2. LakeTypeOK'
      BY <3>1 DEF LakeInv, LakeTypeOK, StoredSamples, Task
    <3> QED
      BY <3>1, <3>2, LakeStays
  <2>4. ASSUME NEW r \in LakeReader, NEW ok \in BOOLEAN, ReadFile(r, ok)
        PROVE  LakeInv' /\ ReadersInv'
    <3>1. reading[r] \subseteq LakeSymbol /\ ReadersInv'
      BY <2>4 DEF ReadFile, ReadersInv
    <3> QED
      BY <2>4, <3>1, ReadKeeps
  <2>5. ASSUME NEW ok \in MirrorOutcome, MirrorSchema(ok) PROVE LakeInv' /\ ReadersInv'
    BY <2>5, WritesKeep DEF MirrorSchema, ReadersInv, MirrorOutcome
  <2>6. ASSUME NEW ok \in MirrorOutcome, NEW prune \in BOOLEAN, MirrorPersist(ok, prune)
        PROVE  LakeInv' /\ ReadersInv'
    BY <2>6, WritesKeep DEF MirrorPersist, ReadersInv, MirrorOutcome
  <2>7. ASSUME NEW S \in SUBSET LakeSymbol, MirrorLoad(S) PROVE LakeInv' /\ ReadersInv'
    BY <2>7, MirrorLoadKeeps DEF MirrorLoad, ReadersInv
  <2>8. CASE LakeTick
    BY <2>8, WritesKeep DEF LakeTick, ReadersInv
  <2>9. CASE LakeRestart
    <3>1. StoredSamples' = StoredSamples
      BY <2>9 DEF LakeRestart, StoredSamples
    <3> QED
      BY <2>9, <3>1 DEF LakeRestart, LakeInv, LakeTypeOK, ReadersInv, Distinct
  <2>10. CASE UNCHANGED lakeVars
    <3>1. UNCHANGED <<second, cache, merged, lines, rows, batch, mirror, reading>>
      BY <2>10 DEF lakeVars
    <3>2. LakeTypeOK'
      BY <3>1 DEF LakeInv, LakeTypeOK, StoredSamples, Task
    <3> QED
      BY <3>1, <3>2, LakeStays DEF ReadersInv
  <2> QED
    BY <2>1, <2>2, <2>3, <2>4, <2>5, <2>6, <2>7, <2>8, <2>9, <2>10 DEF LakeNext
<1> QED
  BY <1>1, <1>2, PTL DEF LakeSpec

(* The newest sample of a bucket stays until the horizon has passed it, for any symbols,
   readers, batches and restarts: a read of the file or of the mirror that comes after an
   ingestion neither drops it nor puts an older one in its place
   (merge_samples_with_precedence, ensure_symbols_loaded). *)
THEOREM NewestStays == LakeSpec => []NewestKept
<1>1. LakeInv => NewestKept
  <2> SUFFICES ASSUME LakeInv, NEW x \in merged
               PROVE  /\ \E c \in cache[x[1]] : BucketOf(c) = BucketOf(x[2])
                      /\ \A c \in cache[x[1]] : BucketOf(c) = BucketOf(x[2]) => c >= x[2]
    BY DEF NewestKept
  <2>1. PICK d \in cache[x[1]] : BucketOf(d) = BucketOf(x[2]) /\ d >= x[2]
    BY DEF LakeInv
  <2>2. x[1] \in LakeSymbol
    BY DEF LakeInv, LakeTypeOK, StoredSamples
  <2>3. \A c \in cache[x[1]] : BucketOf(c) = BucketOf(x[2]) => c = d
    BY <2>1, <2>2 DEF LakeInv, Distinct
  <2> QED
    BY <2>1, <2>3
<1> QED
  BY <1>1, LakeInvariant, PTL

(* No frame of a replay holds what was observed after its timestamp, nor a row features of
   samples after it, whatever the lake holds (build_native_backtest_frames,
   compute_features). *)
THEOREM FramesLookBack == LakeSpec => []FramesDontLookAhead
<1>1. LakeTypeOK => FramesDontLookAhead
  <2> SUFFICES ASSUME LakeTypeOK, NEW f \in Frames, NEW r \in f.rows
               PROVE  r.at <= f.timestamp /\ r.features.last <= r.at /\ Max(r.features.long) <= r.at
    BY DEF FramesDontLookAhead
  <2> DEFINE all == UNION {UNION {FrameRow(s, x) : x \in FirstOfInterval(s)} : s \in LakeSymbol}
             at(i) == {q \in all : q.at \div FrameInterval = i}
  <2>0. second \in Nat /\ LongWindow \in Nat
    BY LakeAssumption DEF LakeTypeOK, LakeAssumption
  <2>1. ASSUME NEW q \in all
        PROVE  \E s \in LakeSymbol : \E x \in cache[s] :
                 q.at = x /\ q.features \in Features({z \in cache[s] : z <= x})
    <3>0. PICK s \in LakeSymbol : \E x \in FirstOfInterval(s) : q \in FrameRow(s, x)
      BY <2>1
    <3>1. PICK x \in FirstOfInterval(s) : q \in FrameRow(s, x)
      BY <3>0
    <3>2. x \in cache[s]
      BY <3>1 DEF FirstOfInterval
    <3>3. q.at = x /\ q.features \in Features({z \in cache[s] : z <= x})
      BY <3>1 DEF FrameRow
    <3> QED
      BY <3>1, <3>2, <3>3
  <2>2. \A q \in all : q.at \in 0 .. second
    BY <2>1 DEF LakeTypeOK
  <2>3. PICK i : f = [timestamp |-> Max({q.at : q \in at(i)}), rows |-> at(i)]
    BY DEF Frames
  <2>4. r \in at(i) /\ r \in all
    BY <2>3
  <2>5. r.at <= f.timestamp
    <3>1. {q.at : q \in at(i)} \in SUBSET (0 .. second) /\ r.at \in {q.at : q \in at(i)}
      BY <2>2, <2>4
    <3>2. r.at <= Max({q.at : q \in at(i)})
      BY <2>0, <3>1, GreatestOf
    <3> QED
      BY <2>3, <3>2
  <2> HIDE DEF all, at
  <2>a. PICK s \in LakeSymbol :
          \E x \in cache[s] : r.at = x /\ r.features \in Features({z \in cache[s] : z <= x})
    BY <2>1, <2>4
  <2>6. PICK x \in cache[s] : r.at = x /\ r.features \in Features({z \in cache[s] : z <= x})
    BY <2>a
  <2> DEFINE c == {z \in cache[s] : z <= x}
  <2>7. c \in SUBSET (0 .. second) /\ x \in c
    BY <2>0, <2>6 DEF LakeTypeOK
  <2> HIDE DEF c
  <2>8. Max(c) \in c
    BY <2>0, <2>7, GreatestOf
  <2>9. /\ r.features.last = Max(c) /\ r.features.long = WindowSlice(c, Max(c) - LongWindow)
    BY <2>6 DEF Features, c
  <2>10. Max(r.features.long) \in c
    <3>a. \A m \in 0 .. second : m \in Nat /\ m >= m - LongWindow
      BY <2>0
    <3>0. Max(c) \in Nat /\ Max(c) >= Max(c) - LongWindow
      BY <2>7, <2>8, <3>a
    <3>1. r.features.long = {z \in c : z >= Max(c) - LongWindow} /\ Max(c) \in r.features.long
      BY <2>8, <2>9, <3>0 DEF WindowSlice
    <3> QED
      BY <2>0, <2>7, <3>1, GreatestOf
  <2> QED
    BY <2>5, <2>6, <2>8, <2>9, <2>10 DEF c
<1>2. LakeInv => LakeTypeOK
  BY DEF LakeInv
<1> QED
  BY <1>1, <1>2, LakeInvariant, PTL

(* ---------------------------------------------------------------------- *)
(* The calls to OctoBot                                                    *)

JobStep == {"idle", "done", "failed", "candles", "context", "graph", "portfolio", "page", "enrich",
            "value", "trading", "config", "setconfig", "watch", "restart", "start", "stop",
            "collect", "report", "files", "logs1", "logs2", "logs3"}
JobKind == {"none", "json", "html", "empty", "wrong"} \cup ReportBody
Job == [pc: JobStep, missing: BOOLEAN, heard: BOOLEAN, total: BOOLEAN, kind: JobKind, pair: Pair]

ApiTypeOK ==
  /\ minute \in Nat
  /\ job \in Job
  /\ octobot \in [config: SUBSET Pair, watch: SUBSET Pair, active: SUBSET Pair, restarting: BOOLEAN]
  /\ restartUntil \in [Pair -> Nat]
  /\ restartsAsked \in [Pair -> Seq(Nat)]

\* A fallback stands on a missing route, and balances that were read are on the way to
\* the answer.
AnswerLawful ==
  /\ job.pc \in {"context", "graph"} => job.missing
  /\ job.heard => job.pc \in {"enrich", "value", "done", "failed"} /\ job.kind # "empty"

\* A pair is restarted when it is configured and watched, and rests afterwards.
RestartLawful ==
  /\ job.pc \in {"watch", "restart"} => job.pair \in octobot.config
  /\ job.pc = "restart" => job.pair \in octobot.watch
  /\ \A p \in Pair : restartUntil[p] # 0 => p \in octobot.config \cap octobot.watch
  /\ \A p \in Pair :
       restartsAsked[p] # <<>> => restartUntil[p] >= restartsAsked[p][Len(restartsAsked[p])] + RestartCool
  /\ \A p \in Pair : \A i \in 1 .. (Len(restartsAsked[p]) - 1) :
       restartsAsked[p][i + 1] - restartsAsked[p][i] >= RestartCool

ApiInv == ApiTypeOK /\ AnswerLawful /\ RestartLawful

\* A step of a job that sets nothing of a pair.
LEMMA StepKeepsApi ==
  ASSUME ApiInv, UNCHANGED <<minute, octobot, restartUntil, restartsAsked>>, job' \in Job, AnswerLawful',
         job'.pc \notin {"watch", "restart"}
  PROVE  ApiInv'
BY DEF ApiInv, ApiTypeOK, RestartLawful

\* Where a job goes from a step on which nothing was read.
LEMMA GoKeepsApi ==
  ASSUME ApiInv, UNCHANGED <<minute, octobot, restartUntil, restartsAsked>>, NEW pc \in JobStep, Go(pc),
         pc \in {"context", "graph"} => job.missing, pc \notin {"watch", "restart"},
         job.heard => pc \in {"enrich", "value", "done", "failed"}
  PROVE  ApiInv'
<1>1. job' \in Job /\ job' = [job EXCEPT !.pc = pc]
  BY DEF Go, ApiInv, ApiTypeOK, Job
<1>2. AnswerLawful'
  BY <1>1 DEF ApiInv, ApiTypeOK, AnswerLawful, Job
<1> QED
  BY <1>1, <1>2, StepKeepsApi DEF ApiInv, ApiTypeOK, Job

LEMMA ReadKeepsApi ==
  ASSUME ApiInv, UNCHANGED <<minute, octobot, restartUntil, restartsAsked>>, NEW pc \in JobStep,
         NEW b \in BOOLEAN, NEW t \in BOOLEAN, NEW kind \in JobKind, Read(pc, b, t, kind),
         pc \notin {"context", "graph", "watch", "restart"},
         job.heard \/ b => pc \in {"enrich", "value", "done", "failed"} /\ kind # "empty"
  PROVE  ApiInv'
<1>1. job' = [job EXCEPT !.pc = pc, !.heard = job.heard \/ b, !.total = job.total \/ t, !.kind = kind]
  BY DEF Read
<1>2. /\ job' \in Job /\ job'.pc = pc /\ job'.heard = (job.heard \/ b) /\ job'.kind = kind
  BY <1>1 DEF ApiInv, ApiTypeOK, Job
<1>3. AnswerLawful'
  BY <1>2 DEF AnswerLawful
<1> QED
  BY <1>2, <1>3, StepKeepsApi

LEMMA JobBegins ==
  ASSUME ApiInv, NEW p \in Pair, NEW pc \in {"candles", "portfolio", "trading", "collect", "logs1"}, BeginJob(pc, p)
  PROVE  ApiInv'
<1>1. job' = [NoJob EXCEPT !.pc = pc, !.pair = p] /\ UNCHANGED <<minute, octobot, restartUntil, restartsAsked>>
  BY DEF BeginJob
<1>2. job' \in Job /\ job'.pc = pc /\ ~job'.heard
  BY <1>1 DEF NoJob, Job, JobStep, JobKind
<1>3. AnswerLawful'
  BY <1>2 DEF AnswerLawful
<1> QED
  BY <1>1, <1>2, <1>3, StepKeepsApi

LEMMA HistoryKeeps ==
  ASSUME ApiInv, HistoryCandles \/ HistoryContext \/ HistoryGraph
  PROVE  ApiInv'
<1>0. UNCHANGED <<minute, octobot, restartUntil, restartsAsked>>
  BY DEF HistoryCandles, HistoryContext, HistoryGraph, Calm4
<1>1. CASE HistoryCandles
  <2>0. ~job.heard
    BY <1>1 DEF HistoryCandles, ApiInv, AnswerLawful
  <2>1. PICK o \in OptionalJson("candles", CandlesBackoff) :
          CASE Told(o) = "body" -> \E valid \in BOOLEAN : Go(IF valid THEN "done" ELSE "failed")
            [] Told(o) = "none" -> job' = [job EXCEPT !.pc = "context", !.missing = o = "missing"]
            [] OTHER -> Go("failed")
    BY <1>1 DEF HistoryCandles
  <2>2. CASE Go("done") \/ Go("failed")
    BY <1>0, <2>0, <2>2, GoKeepsApi DEF JobStep
  <2>3. CASE Told(o) = "none" /\ job' = [job EXCEPT !.pc = "context", !.missing = o = "missing"]
    <3>1. o = "missing"
      BY <2>1, <2>3 DEF OptionalJson, CandlesBackoff, Reply, Told
    <3>2. job' \in Job /\ job'.pc = "context" /\ job'.missing /\ ~job'.heard
      BY <2>0, <2>3, <3>1 DEF ApiInv, ApiTypeOK, Job, JobStep
    <3>3. AnswerLawful'
      BY <3>2 DEF AnswerLawful
    <3> QED
      BY <1>0, <3>2, <3>3, StepKeepsApi
  <2> QED
    BY <2>1, <2>2, <2>3
<1>2. CASE HistoryContext
  <2>0. ~job.heard /\ job.missing
    BY <1>2 DEF HistoryContext, ApiInv, AnswerLawful
  <2>1. Go("graph") \/ Go("failed")
    BY <1>2 DEF HistoryContext
  <2> QED
    BY <1>0, <2>0, <2>1, GoKeepsApi DEF JobStep
<1>3. CASE HistoryGraph
  <2>0. ~job.heard
    BY <1>3 DEF HistoryGraph, ApiInv, AnswerLawful
  <2>1. Go("done") \/ Go("failed")
    BY <1>3 DEF HistoryGraph
  <2> QED
    BY <1>0, <2>0, <2>1, GoKeepsApi DEF JobStep
<1> QED
  BY <1>1, <1>2, <1>3

LEMMA PortfolioKeeps ==
  ASSUME ApiInv, PortfolioApi \/ PortfolioEnrich \/ PortfolioValue \/ PortfolioPage
  PROVE  ApiInv'
<1>0. UNCHANGED <<minute, octobot, restartUntil, restartsAsked>> /\ job.heard \in BOOLEAN /\ job.kind \in JobKind
  BY DEF PortfolioApi, PortfolioEnrich, PortfolioValue, PortfolioPage, Calm4, ApiInv, ApiTypeOK, Job
<1> USE DEF JobStep, JobKind
<1>1. CASE PortfolioApi
  <2>0. ~job.heard
    BY <1>1 DEF PortfolioApi, ApiInv, AnswerLawful
  <2>1. \/ \E h \in JsonHolds : Read(IF h.total THEN "done" ELSE "enrich", h.balances, h.total, "json")
        \/ Go("page") \/ Go("failed")
    BY <1>1 DEF PortfolioApi
  <2>2. ASSUME NEW h \in JsonHolds, Read(IF h.total THEN "done" ELSE "enrich", h.balances, h.total, "json")
        PROVE  ApiInv'
    BY <1>0, <2>2, ReadKeepsApi DEF JsonHolds
  <2> QED
    BY <1>0, <2>0, <2>1, <2>2, GoKeepsApi
<1>2. CASE PortfolioEnrich
  <2>1. \/ \E h \in JsonHolds : Read(IF h.total THEN "done" ELSE "value", h.balances, h.total, "json")
        \/ Go("value") \/ Go("failed")
    BY <1>2 DEF PortfolioEnrich
  <2>2. ASSUME NEW h \in JsonHolds, Read(IF h.total THEN "done" ELSE "value", h.balances, h.total, "json")
        PROVE  ApiInv'
    BY <1>0, <2>2, ReadKeepsApi DEF JsonHolds
  <2> QED
    BY <1>0, <2>1, <2>2, GoKeepsApi
<1>3. CASE PortfolioValue
  <2>1. \/ Go("failed")
        \/ \E t \in BOOLEAN : Read(IF job.kind = "json" /\ ~(job.heard \/ t) THEN "page" ELSE "done",
                                   FALSE, t, job.kind)
    BY <1>3 DEF PortfolioValue
  <2>2. job.heard => job.kind # "empty"
    BY DEF ApiInv, AnswerLawful
  <2>3. ASSUME NEW t \in BOOLEAN,
               Read(IF job.kind = "json" /\ ~(job.heard \/ t) THEN "page" ELSE "done", FALSE, t, job.kind)
        PROVE  ApiInv'
    BY <1>0, <2>2, <2>3, ReadKeepsApi
  <2> QED
    BY <1>0, <2>1, <2>3, GoKeepsApi
<1>4. CASE PortfolioPage
  <2>0. ~job.heard
    BY <1>4 DEF PortfolioPage, ApiInv, AnswerLawful
  <2>1. \/ \E h \in PageHolds : Read(IF h.total THEN "done" ELSE "value", h.balances, h.total,
                                     IF h.balances THEN "html" ELSE "empty")
        \/ Read("value", FALSE, FALSE, "empty") \/ Go("failed")
    BY <1>4 DEF PortfolioPage
  <2>2. ASSUME NEW h \in PageHolds, Read(IF h.total THEN "done" ELSE "value", h.balances, h.total,
                                         IF h.balances THEN "html" ELSE "empty")
        PROVE  ApiInv'
    BY <1>0, <2>0, <2>2, ReadKeepsApi DEF PageHolds, JsonHolds
  <2>3. CASE Read("value", FALSE, FALSE, "empty")
    BY <1>0, <2>0, <2>3, ReadKeepsApi
  <2> QED
    BY <1>0, <2>0, <2>1, <2>2, <2>3, GoKeepsApi
<1> QED
  BY <1>1, <1>2, <1>3, <1>4

LEMMA BacktestCallsKeep ==
  ASSUME ApiInv, BacktestStart \/ BacktestStop \/ CollectorStart \/ DataFiles \/ BacktestReport \/ RecentLogs
  PROVE  ApiInv'
<1>0. /\ UNCHANGED <<minute, octobot, restartUntil, restartsAsked>> /\ ~job.heard /\ job \in Job
  BY DEF BacktestStart, BacktestStop, CollectorStart, DataFiles, BacktestReport, RecentLogs, Calm4, ApiInv,
         ApiTypeOK, AnswerLawful
<1>1. CASE BacktestStart \/ BacktestStop \/ CollectorStart \/ DataFiles
  <2>1. \E pc \in {"report", "failed", "done", "files", "start"} : Go(pc)
    BY <1>1 DEF BacktestStart, BacktestStop, CollectorStart, DataFiles
  <2> QED
    BY <1>0, <2>1, GoKeepsApi DEF JobStep
<1>2. ASSUME NEW pc \in {"failed", "report", "stop", "done", "logs2", "logs3"}, NEW kind \in JobKind,
             job' = [job EXCEPT !.pc = pc, !.kind = kind]
      PROVE  ApiInv'
  <2>1. job' \in Job /\ job'.pc = pc /\ ~job'.heard
    BY <1>0, <1>2 DEF Job, JobStep
  <2>2. AnswerLawful'
    BY <2>1 DEF AnswerLawful
  <2> QED
    BY <1>0, <2>1, <2>2, StepKeepsApi
<1>3. CASE BacktestReport
  <2>1. \E pc \in {"failed", "report", "stop"}, kind \in JobKind : job' = [job EXCEPT !.pc = pc, !.kind = kind]
    BY <1>3 DEF BacktestReport, JobKind
  <2> QED
    BY <1>2, <2>1
<1>4. CASE RecentLogs
  <2>1. Go("done") \/ \E pc \in {"failed", "done", "logs2", "logs3"}, kind \in JobKind :
                        job' = [job EXCEPT !.kind = kind, !.pc = pc]
    <3>1. PICK o : \E some \in BOOLEAN :
            IF some THEN Go("done")
            ELSE job' = [job EXCEPT !.kind = IF job.kind = "wrong" \/ Told(o) = "err" THEN "wrong" ELSE job.kind,
                                    !.pc = IF LogsNext(job.pc) = "done" /\ (job.kind = "wrong" \/ Told(o) = "err")
                                           THEN "failed" ELSE LogsNext(job.pc)]
      BY <1>4 DEF RecentLogs, LogsHold
    <3>2. LogsNext(job.pc) \in {"logs2", "logs3", "done"}
      BY DEF LogsNext
    <3>3. (IF job.kind = "wrong" \/ Told(o) = "err" THEN "wrong" ELSE job.kind) \in JobKind
      BY <1>0 DEF Job, JobKind
    <3> QED
      BY <3>1, <3>2, <3>3
  <2>2. ASSUME NEW pc \in {"failed", "done", "logs2", "logs3"}, NEW kind \in JobKind,
               job' = [job EXCEPT !.kind = kind, !.pc = pc]
        PROVE  ApiInv'
    <3>1. job' = [job EXCEPT !.pc = pc, !.kind = kind]
      BY <1>0, <2>2 DEF Job
    <3> QED
      BY <1>2, <3>1
  <2> QED
    BY <1>0, <2>1, <2>2, GoKeepsApi DEF JobStep
<1> QED
  BY <1>1, <1>3, <1>4

\* What an OctoBot holds of pairs only grows, but for the active ones.
LEMMA PairsGrow ==
  ASSUME ApiInv, UNCHANGED <<minute, restartUntil, restartsAsked>>, job' \in Job, ~job'.heard,
         octobot' \in [config: SUBSET Pair, watch: SUBSET Pair, active: SUBSET Pair, restarting: BOOLEAN],
         octobot.config \subseteq octobot'.config, octobot.watch \subseteq octobot'.watch,
         job'.pc \notin {"context", "graph"},
         job'.pc \in {"watch", "restart"} => job'.pair \in octobot'.config,
         job'.pc = "restart" => job'.pair \in octobot'.watch
  PROVE  ApiInv'
<1>1. ApiTypeOK' /\ AnswerLawful'
  BY DEF ApiInv, ApiTypeOK, AnswerLawful
<1>2. RestartLawful'
  BY DEF ApiInv, RestartLawful
<1> QED
  BY <1>1, <1>2 DEF ApiInv

LEMMA StatusKeeps ==
  ASSUME ApiInv, PairStatus
  PROVE  ApiInv'
<1>0. /\ UNCHANGED <<minute, octobot>> /\ job.pc = "trading" /\ job \in Job /\ ~job.heard /\ job.pair \in Pair
  BY DEF PairStatus, ApiInv, ApiTypeOK, AnswerLawful, Job
<1>1. \/ /\ Go("done")
         /\ restartUntil' = [restartUntil EXCEPT ![job.pair] = 0]
         /\ restartsAsked' = [restartsAsked EXCEPT ![job.pair] = <<>>]
      \/ (Go("config") \/ Go("failed")) /\ UNCHANGED <<restartUntil, restartsAsked>>
  BY DEF PairStatus
<1>2. CASE /\ Go("done")
           /\ restartUntil' = [restartUntil EXCEPT ![job.pair] = 0]
           /\ restartsAsked' = [restartsAsked EXCEPT ![job.pair] = <<>>]
  <2>1. job' \in Job /\ job'.pc = "done" /\ ~job'.heard
    BY <1>0, <1>2 DEF Go, Job, JobStep
  <2>2. /\ restartUntil' \in [Pair -> Nat] /\ restartsAsked' \in [Pair -> Seq(Nat)]
        /\ \A p \in Pair : IF p = job.pair THEN restartUntil'[p] = 0 /\ restartsAsked'[p] = <<>>
                            ELSE restartUntil'[p] = restartUntil[p] /\ restartsAsked'[p] = restartsAsked[p]
    <3>1. restartUntil \in [Pair -> Nat] /\ restartsAsked \in [Pair -> Seq(Nat)] /\ <<>> \in Seq(Nat)
      BY DEF ApiInv, ApiTypeOK
    <3>2. /\ restartUntil' \in [Pair -> Nat]
          /\ \A p \in Pair : restartUntil'[p] = IF p = job.pair THEN 0 ELSE restartUntil[p]
      BY <1>2, <3>1
    <3>3. /\ restartsAsked' \in [Pair -> Seq(Nat)]
          /\ \A p \in Pair : restartsAsked'[p] = IF p = job.pair THEN <<>> ELSE restartsAsked[p]
      BY <1>2, <3>1
    <3> QED
      BY <3>2, <3>3
  <2>3. ApiTypeOK' /\ AnswerLawful'
    BY <1>0, <2>1, <2>2 DEF ApiInv, ApiTypeOK, AnswerLawful
  <2>4. ASSUME NEW p \in Pair
        PROVE  /\ restartUntil'[p] # 0 => p \in octobot'.config \cap octobot'.watch
               /\ restartsAsked'[p] # <<>> =>
                    restartUntil'[p] >= restartsAsked'[p][Len(restartsAsked'[p])] + RestartCool
               /\ \A i \in 1 .. (Len(restartsAsked'[p]) - 1) :
                    restartsAsked'[p][i + 1] - restartsAsked'[p][i] >= RestartCool
    <3>1. CASE p = job.pair
      BY <2>2, <3>1
    <3>2. CASE p # job.pair
      BY <1>0, <2>2, <3>2 DEF ApiInv, RestartLawful
    <3> QED
      BY <3>1, <3>2
  <2>5. RestartLawful'
    BY <2>1, <2>4 DEF RestartLawful
  <2> QED
    BY <2>3, <2>5 DEF ApiInv
<1>3. CASE (Go("config") \/ Go("failed")) /\ UNCHANGED <<restartUntil, restartsAsked>>
  BY <1>0, <1>3, GoKeepsApi DEF JobStep
<1> QED
  BY <1>1, <1>2, <1>3

LEMMA ConfigKeeps ==
  ASSUME ApiInv, PairConfig
  PROVE  ApiInv'
<1>0. /\ UNCHANGED <<minute, octobot, restartUntil, restartsAsked>> /\ job \in Job /\ ~job.heard
      /\ octobot \in [config: SUBSET Pair, watch: SUBSET Pair, active: SUBSET Pair, restarting: BOOLEAN]
  BY DEF PairConfig, Calm4, ApiInv, ApiTypeOK, AnswerLawful
<1>1. (Go("watch") /\ job.pair \in octobot.config) \/ Go("setconfig") \/ Go("failed")
  BY DEF PairConfig, InConfig
<1>2. CASE Go("watch") /\ job.pair \in octobot.config
  <2>1. job' \in Job /\ job'.pc = "watch" /\ ~job'.heard /\ job'.pair = job.pair
    BY <1>0, <1>2 DEF Go, Job, JobStep
  <2> QED
    BY <1>0, <1>2, <2>1, PairsGrow
<1>3. CASE Go("setconfig") \/ Go("failed")
  BY <1>0, <1>3, GoKeepsApi DEF JobStep
<1> QED
  BY <1>1, <1>2, <1>3

LEMMA SetKeeps ==
  ASSUME ApiInv, PairSetConfig \/ PairWatch
  PROVE  ApiInv'
<1>0. /\ UNCHANGED <<minute, restartUntil, restartsAsked>> /\ job \in Job /\ ~job.heard /\ job.pair \in Pair
      /\ octobot \in [config: SUBSET Pair, watch: SUBSET Pair, active: SUBSET Pair, restarting: BOOLEAN]
  BY DEF PairSetConfig, PairWatch, PairSet, ApiInv, ApiTypeOK, AnswerLawful, Job
<1>1. ASSUME NEW field \in {"config", "watch"}, NEW next \in {"watch", "restart"},
             NEW did \in BOOLEAN,
             (Go(next) /\ did) \/ Go("failed"),
             octobot' = IF did THEN [octobot EXCEPT ![field] = @ \cup {job.pair}] ELSE octobot,
             \/ field = "config" /\ next = "watch"
             \/ field = "watch" /\ next = "restart" /\ job.pair \in octobot.config
      PROVE  ApiInv'
  <2>1. /\ octobot' \in [config: SUBSET Pair, watch: SUBSET Pair, active: SUBSET Pair, restarting: BOOLEAN]
        /\ octobot.config \subseteq octobot'.config /\ octobot.watch \subseteq octobot'.watch
        /\ did => job.pair \in octobot'[field]
    BY <1>0, <1>1
  <2>2. CASE Go("failed")
    <3>1. job' \in Job /\ job'.pc = "failed" /\ ~job'.heard
      BY <1>0, <2>2 DEF Go, Job, JobStep
    <3> QED
      BY <1>0, <2>1, <3>1, PairsGrow
  <2>3. CASE Go(next) /\ did
    <3>1. job' \in Job /\ job'.pc = next /\ ~job'.heard /\ job'.pair = job.pair
      BY <1>0, <2>3 DEF Go, Job, JobStep
    <3>2. job.pair \in octobot'.config /\ (next = "restart" => job.pair \in octobot'.watch)
      BY <1>1, <2>1, <2>3
    <3> QED
      BY <1>0, <2>1, <3>1, <3>2, PairsGrow
  <2> QED
    BY <1>1, <2>2, <2>3
<1>2. CASE PairSetConfig
  <2>1. PICK o \in PostJson : /\ Go(IF o = "ok" THEN "watch" ELSE "failed")
                              /\ \E did \in (IF o = "ok" THEN {TRUE} ELSE {FALSE, o # "error"}) :
                                   octobot' = IF did THEN [octobot EXCEPT !["config"] = @ \cup {job.pair}] ELSE octobot
    BY <1>2 DEF PairSetConfig, PairSet
  <2>2. CASE o = "ok"
    <3>1. Go("watch") /\ octobot' = IF TRUE THEN [octobot EXCEPT !["config"] = @ \cup {job.pair}] ELSE octobot
      BY <2>1, <2>2
    <3> QED
      BY <1>1, <3>1
  <2>3. CASE o # "ok"
    <3>1. Go("failed") /\ \E did \in BOOLEAN :
            octobot' = IF did THEN [octobot EXCEPT !["config"] = @ \cup {job.pair}] ELSE octobot
      BY <2>1, <2>3
    <3> QED
      BY <1>1, <3>1
  <2> QED
    BY <2>2, <2>3
<1>3. CASE PairWatch
  <2>1. PICK o \in PostJson : /\ Go(IF o = "ok" THEN "restart" ELSE "failed")
                              /\ \E did \in (IF o = "ok" THEN {TRUE} ELSE {FALSE, o # "error"}) :
                                   octobot' = IF did THEN [octobot EXCEPT !["watch"] = @ \cup {job.pair}] ELSE octobot
    BY <1>3 DEF PairWatch, PairSet
  <2>2. job.pair \in octobot.config
    BY <1>3 DEF PairWatch, PairSet, ApiInv, RestartLawful
  <2> QED
    BY <1>1, <2>1, <2>2
<1> QED
  BY <1>2, <1>3

LEMMA RestartKeeps ==
  ASSUME ApiInv, PairRestart
  PROVE  ApiInv'
<1>0. /\ minute' = minute /\ minute \in Nat /\ job \in Job /\ ~job.heard /\ job.pair \in Pair
      /\ job.pair \in octobot.config \cap octobot.watch /\ RestartCool \in Nat
      /\ octobot \in [config: SUBSET Pair, watch: SUBSET Pair, active: SUBSET Pair, restarting: BOOLEAN]
  BY ApiAssumption DEF PairRestart, ApiInv, ApiTypeOK, AnswerLawful, RestartLawful, Job
<1>1. CASE RestartCooling(job.pair)
  BY <1>0, <1>1, GoKeepsApi DEF PairRestart, JobStep
<1>2. CASE ~RestartCooling(job.pair)
  <2>1. PICK o \in PostJson :
          /\ Go(IF o = "ok" THEN "done" ELSE "failed")
          /\ \E did \in BOOLEAN : octobot' = [octobot EXCEPT !.restarting = @ \/ did]
          /\ restartUntil' = IF o = "ok" THEN [restartUntil EXCEPT ![job.pair] = minute + RestartCool]
                             ELSE restartUntil
          /\ restartsAsked' = IF o = "ok" THEN [restartsAsked EXCEPT ![job.pair] = Append(@, minute)]
                              ELSE restartsAsked
    BY <1>2 DEF PairRestart
  <2>2. /\ job' \in Job /\ job'.pc \in {"done", "failed"} /\ ~job'.heard
    BY <1>0, <2>1 DEF Go, Job, JobStep
  <2>3. /\ octobot' \in [config: SUBSET Pair, watch: SUBSET Pair, active: SUBSET Pair, restarting: BOOLEAN]
        /\ octobot'.config = octobot.config /\ octobot'.watch = octobot.watch
    BY <1>0, <2>1
  <2>4. CASE o # "ok"
    BY <1>0, <2>1, <2>2, <2>3, <2>4, PairsGrow
  <2>5. CASE o = "ok"
    <3> DEFINE asked == restartsAsked[job.pair]
    <3>0. asked \in Seq(Nat) /\ restartUntil[job.pair] \in Nat /\ restartUntil[job.pair] <= minute
      BY <1>0, <1>2 DEF RestartCooling, ApiInv, ApiTypeOK
    <3>1. /\ restartUntil' \in [Pair -> Nat] /\ restartsAsked' \in [Pair -> Seq(Nat)]
          /\ restartUntil'[job.pair] = minute + RestartCool
          /\ restartsAsked'[job.pair] = Append(asked, minute)
          /\ \A p \in Pair \ {job.pair} : restartUntil'[p] = restartUntil[p] /\ restartsAsked'[p] = restartsAsked[p]
      BY <1>0, <2>1, <2>5, <3>0 DEF ApiInv, ApiTypeOK
    <3>2. asked # <<>> => minute - asked[Len(asked)] >= RestartCool
      <4>1. asked # <<>> => restartUntil[job.pair] >= asked[Len(asked)] + RestartCool
        BY <1>0 DEF ApiInv, RestartLawful
      <4>2. asked # <<>> => asked[Len(asked)] \in Nat
        BY <3>0
      <4> QED
        BY <1>0, <3>0, <4>1, <4>2, SMTT(30)
    <3>3. \A i \in 1 .. (Len(asked) - 1) : asked[i + 1] - asked[i] >= RestartCool
      BY <1>0 DEF ApiInv, RestartLawful
    <3> HIDE DEF asked
    <3>4. \A i \in 1 .. (Len(Append(asked, minute)) - 1) :
            Append(asked, minute)[i + 1] - Append(asked, minute)[i] >= RestartCool
      <4> SUFFICES ASSUME NEW i \in 1 .. (Len(Append(asked, minute)) - 1)
                   PROVE  Append(asked, minute)[i + 1] - Append(asked, minute)[i] >= RestartCool
        OBVIOUS
      <4>1. Len(Append(asked, minute)) = Len(asked) + 1 /\ Len(asked) \in Nat
        BY <1>0, <3>0
      <4>2. i \in 1 .. Len(asked) /\ Append(asked, minute)[i] = asked[i]
        BY <1>0, <3>0, <4>1
      <4>3. CASE i = Len(asked)
        <5>1. Append(asked, minute)[i + 1] = minute /\ asked # <<>>
          BY <1>0, <3>0, <4>2, <4>3
        <5> QED
          BY <3>2, <4>2, <4>3, <5>1
      <4>4. CASE i # Len(asked)
        <5>1. i + 1 \in 1 .. Len(asked) /\ i \in 1 .. (Len(asked) - 1)
          BY <4>1, <4>2, <4>4
        <5>2. Append(asked, minute)[i + 1] = asked[i + 1]
          BY <1>0, <3>0, <5>1
        <5> QED
          BY <3>3, <4>2, <5>1, <5>2
      <4> QED
        BY <4>3, <4>4
    <3>5. Append(asked, minute)[Len(Append(asked, minute))] = minute
      BY <1>0, <3>0
    <3>6. ApiTypeOK' /\ AnswerLawful'
      BY <1>0, <2>2, <2>3, <3>1 DEF ApiTypeOK, AnswerLawful
    <3>7. ASSUME NEW p \in Pair
          PROVE  /\ restartUntil'[p] # 0 => p \in octobot'.config \cap octobot'.watch
                 /\ restartsAsked'[p] # <<>> =>
                      restartUntil'[p] >= restartsAsked'[p][Len(restartsAsked'[p])] + RestartCool
                 /\ \A i \in 1 .. (Len(restartsAsked'[p]) - 1) :
                      restartsAsked'[p][i + 1] - restartsAsked'[p][i] >= RestartCool
      <4>1. CASE p = job.pair
        <5>1. restartsAsked'[p] = Append(asked, minute) /\ restartUntil'[p] = minute + RestartCool
          BY <3>1, <4>1
        <5>2. minute + RestartCool >= minute + RestartCool
          BY <1>0
        <5> QED
          BY <1>0, <2>3, <3>4, <3>5, <4>1, <5>1, <5>2
      <4>2. CASE p # job.pair
        BY <2>3, <3>1, <4>2 DEF ApiInv, RestartLawful
      <4> QED
        BY <4>1, <4>2
    <3>8. RestartLawful'
      BY <2>2, <3>7 DEF RestartLawful
    <3> QED
      BY <3>6, <3>8 DEF ApiInv
  <2> QED
    BY <2>4, <2>5
<1> QED
  BY <1>1, <1>2

LEMMA ApiInvariant == ApiSpec => []ApiInv
<1>1. ApiInit => ApiInv
  <2> SUFFICES ASSUME ApiInit PROVE ApiInv
    OBVIOUS
  <2>1. job \in Job /\ job.pc = "idle" /\ ~job.heard
    BY ApiAssumption DEF ApiInit, NoJob, Job, JobStep, JobKind, ApiAssumption
  <2>2. /\ restartUntil = [p \in Pair |-> 0] /\ restartsAsked = [p \in Pair |-> <<>>] /\ minute = 1
        /\ octobot = [config |-> {}, watch |-> {}, active |-> {}, restarting |-> FALSE]
    BY DEF ApiInit
  <2>3. restartsAsked \in [Pair -> Seq(Nat)] /\ \A p \in Pair : restartsAsked[p] = <<>> /\ Len(restartsAsked[p]) = 0
    BY <2>2
  <2>4. ApiTypeOK
    BY <2>1, <2>2, <2>3 DEF ApiTypeOK
  <2>5. AnswerLawful /\ RestartLawful
    BY <2>1, <2>2, <2>3 DEF AnswerLawful, RestartLawful
  <2> QED
    BY <2>4, <2>5 DEF ApiInv
<1>2. ApiInv /\ [ApiNext]_apiVars => ApiInv'
  <2> SUFFICES ASSUME ApiInv, [ApiNext]_apiVars PROVE ApiInv'
    OBVIOUS
  <2>0. NoJob.pair \in Pair
    BY ApiAssumption DEF NoJob
  <2>1. ASSUME NEW p \in Pair, NEW pc \in {"candles", "portfolio", "trading", "collect", "logs1"}, BeginJob(pc, p)
        PROVE  ApiInv'
    BY <2>1, JobBegins
  <2>2. CASE HistoryCandles \/ HistoryContext \/ HistoryGraph
    BY <2>2, HistoryKeeps
  <2>3. CASE PortfolioApi \/ PortfolioEnrich \/ PortfolioValue \/ PortfolioPage
    BY <2>3, PortfolioKeeps
  <2>4. CASE PairStatus \/ PairConfig \/ PairSetConfig \/ PairWatch \/ PairRestart
    BY <2>4, StatusKeeps, ConfigKeeps, SetKeeps, RestartKeeps
  <2>5. CASE OctobotRestarts
    BY <2>5 DEF OctobotRestarts, ApiInv, ApiTypeOK, AnswerLawful, RestartLawful
  <2>6. CASE BacktestStart \/ BacktestStop \/ CollectorStart \/ DataFiles \/ BacktestReport \/ RecentLogs
    BY <2>6, BacktestCallsKeep
  <2>7. CASE ApiTick
    BY <2>7 DEF ApiTick, ApiInv, ApiTypeOK, AnswerLawful, RestartLawful
  <2>8. CASE UNCHANGED apiVars
    BY <2>8 DEF apiVars, ApiInv, ApiTypeOK, AnswerLawful, RestartLawful
  <2>9. \/ \E pc \in {"candles", "portfolio", "trading", "collect", "logs1"}, p \in Pair : BeginJob(pc, p)
        \/ HistoryCandles \/ HistoryContext \/ HistoryGraph
        \/ PortfolioApi \/ PortfolioEnrich \/ PortfolioValue \/ PortfolioPage
        \/ PairStatus \/ PairConfig \/ PairSetConfig \/ PairWatch \/ PairRestart \/ OctobotRestarts
        \/ BacktestStart \/ BacktestStop \/ CollectorStart \/ DataFiles \/ BacktestReport \/ RecentLogs
        \/ ApiTick \/ UNCHANGED apiVars
    BY <2>0 DEF ApiNext
  <2> QED
    BY <2>1, <2>2, <2>3, <2>4, <2>5, <2>6, <2>7, <2>8, <2>9
<1> QED
  BY <1>1, <1>2, PTL DEF ApiSpec

(* A call that was skipped never looks like a route that is missing where the history falls
   back on it, and balances that were read are not answered with an empty portfolio, for
   any replies and backoffs (get_market_snapshot_history, get_portfolio). *)
THEOREM FallbackHonest == ApiSpec => []FallbackIsHonest
<1>1. ApiInv => FallbackIsHonest
  BY DEF ApiInv, AnswerLawful, FallbackIsHonest
<1> QED
  BY <1>1, ApiInvariant, PTL

(* OctoBot is not restarted for a pair again within the cool-down unless the pair was seen
   active meanwhile, and only for a pair it has configured and watches, for any pairs and
   any posts that fail or are carried out unheard (ensure_trading_pair_active_for_order,
   record_trading_pair_restart_request). *)
THEOREM RestartsSpaced == ApiSpec => []RestartsAreSpaced
<1>1. ApiInv => RestartsAreSpaced
  BY DEF ApiInv, ApiTypeOK, RestartLawful, RestartsAreSpaced
<1> QED
  BY <1>1, ApiInvariant, PTL

(* ---------------------------------------------------------------------- *)
(* The scan of a venue: its lists                                          *)

\* A list names no symbol twice.
Lists(S) == {seq \in Seq(S) : \A i, j \in 1 .. Len(seq) : seq[i] = seq[j] => i = j}

\* Among positions there is one that is the n-th.
LEMMA NthPosition ==
  ASSUME NEW m \in Nat, NEW ids \in SUBSET (1 .. m), NEW n \in 1 .. Cardinality(ids)
  PROVE  \E i \in ids : Cardinality({j \in ids : j <= i}) = n
<1> DEFINE upto(k) == {j \in ids : j <= k}
           K == {k \in 0 .. m : Cardinality(upto(k)) >= n}
<1>0. IsFiniteSet(1 .. m)
  <2>1. m \in Int /\ 1 \in Int
    OBVIOUS
  <2> QED
    BY <2>1, FS_Interval
<1>a. IsFiniteSet(ids) /\ Cardinality(ids) \in Nat
  BY <1>0, FS_Subset, FS_CardinalityType
<1>b. \A k \in 0 .. m : IsFiniteSet(upto(k)) /\ Cardinality(upto(k)) \in Nat
  BY <1>a, FS_Subset, FS_CardinalityType
<1>c. \A j \in ids : j \in Int /\ j <= m /\ j >= 1
  <2>1. \A j \in 1 .. m : j \in Int /\ j <= m /\ j >= 1
    OBVIOUS
  <2> QED
    BY <2>1
<1>1. m \in K
  <2>1. upto(m) = ids
    BY <1>c
  <2> QED
    BY <1>a, <2>1
<1>2. K # {} /\ K \in SUBSET Nat
  <2>1. K \subseteq 0 .. m /\ 0 .. m \subseteq Nat
    OBVIOUS
  <2> QED
    BY <1>1, <2>1
<1>3. PICK k \in K : \A i \in K : ~(<<i, k>> \in OpToRel(<, Nat))
  BY <1>2, WFMin, NatLessThanWellFounded
<1>4. k \in 0 .. m /\ Cardinality(upto(k)) >= n /\ \A i \in K : ~(i < k)
  BY <1>2, <1>3 DEF OpToRel
<1>5. k # 0
  <2>1. \A j \in ids : ~(j <= 0)
    BY <1>c
  <2>2. upto(0) = {}
    BY <2>1
  <2>3. Cardinality(upto(0)) = 0
    BY <2>2, FS_EmptySet
  <2> QED
    BY <1>4, <2>3
<1>d. k \in Nat /\ k - 1 \in 0 .. m /\ k - 1 < k
  BY <1>4, <1>5
<1>6. k - 1 \in 0 .. m /\ ~(k - 1 \in K)
  <2> HIDE DEF K, upto
  <2> QED
    BY <1>4, <1>d
<1>7. Cardinality(upto(k - 1)) < n
  <2>1. ~(Cardinality(upto(k - 1)) >= n)
    BY <1>6
  <2>2. Cardinality(upto(k - 1)) \in Nat
    BY <1>b, <1>6
  <2> HIDE DEF K, upto
  <2>3. n \in Int
    OBVIOUS
  <2> QED
    BY <2>1, <2>2, <2>3
<1>8. upto(k) = IF k \in ids THEN upto(k - 1) \cup {k} ELSE upto(k - 1)
  <2>1. \A j \in ids : j <= k <=> (j <= k - 1 \/ j = k)
    BY <1>c, <1>d
  <2> QED
    BY <1>d, <2>1
<1>9. k \in ids /\ Cardinality(upto(k)) = Cardinality(upto(k - 1)) + 1
  <2>1. k \in ids
    BY <1>4, <1>7, <1>8, <1>b, <1>6
  <2>2. k \notin upto(k - 1)
    BY <1>d
  <2>3. IsFiniteSet(upto(k - 1)) /\ upto(k) = upto(k - 1) \cup {k}
    BY <1>8, <1>b, <1>6, <2>1
  <2> QED
    BY <2>1, <2>2, <2>3, FS_AddElement
<1>10. Cardinality(upto(k)) = n
  <2> HIDE DEF K, upto
  <2>1. Cardinality(upto(k - 1)) \in Nat /\ n \in Int
    BY <1>b, <1>6
  <2> QED
    BY <1>4, <1>7, <1>9, <2>1
<1> QED
  BY <1>9, <1>10

\* What is taken from a list is a list of what it has there.
LEMMA SublistIsList ==
  ASSUME NEW S, NEW seq \in Lists(S), NEW ids \in SUBSET (1 .. Len(seq))
  PROVE  Sublist(seq, ids) \in Lists({seq[i] : i \in ids})
<1> DEFINE pick(n) == CHOOSE i \in ids : Cardinality({j \in ids : j <= i}) = n
           sub == Sublist(seq, ids)
           c == Cardinality(ids)
<1>0. Len(seq) \in Nat /\ seq \in Seq(S)
  BY DEF Lists
<1>1. c \in Nat
  <2>1. IsFiniteSet(1 .. Len(seq))
    BY <1>0, FS_Interval
  <2> QED
    BY <2>1, FS_Subset, FS_CardinalityType
<1>2. \A n \in 1 .. c : pick(n) \in ids /\ Cardinality({j \in ids : j <= pick(n)}) = n
  <2> SUFFICES ASSUME NEW n \in 1 .. c
               PROVE  pick(n) \in ids /\ Cardinality({j \in ids : j <= pick(n)}) = n
    OBVIOUS
  <2>1. \E i \in ids : Cardinality({j \in ids : j <= i}) = n
    BY <1>0, NthPosition
  <2> QED
    BY <2>1
<1>3. \A m, n \in 1 .. c : pick(m) = pick(n) => m = n
  BY <1>2
<1>4. sub = [n \in 1 .. c |-> seq[pick(n)]]
  BY DEF Sublist
<1> HIDE DEF pick, sub, c
<1>5. sub \in Seq({seq[i] : i \in ids}) /\ Len(sub) = c
  <2>1. \A n \in 1 .. c : seq[pick(n)] \in {seq[i] : i \in ids}
    BY <1>2
  <2> QED
    BY <1>1, <1>4, <2>1
<1>6. ASSUME NEW m \in 1 .. c, NEW n \in 1 .. c, sub[m] = sub[n] PROVE m = n
  <2>1. seq[pick(m)] = seq[pick(n)]
    BY <1>4, <1>6
  <2>2. pick(m) = pick(n)
    BY <1>2, <2>1 DEF Lists
  <2> QED
    BY <1>3, <2>2
<1> QED
  BY <1>5, <1>6 DEF Lists, sub

LEMMA ListsGrow ==
  ASSUME NEW S, NEW T, S \subseteq T
  PROVE  Lists(S) \subseteq Lists(T)
BY DEF Lists

LEMMA AmongIsList ==
  ASSUME NEW S, NEW seq \in Lists(S), NEW T
  PROVE  Among(seq, T) \in Lists(S \cap T)
<1> DEFINE ids == {i \in 1 .. Len(seq) : seq[i] \in T}
<1>1. Among(seq, T) \in Lists({seq[i] : i \in ids})
  BY SublistIsList DEF Among
<1>2. {seq[i] : i \in ids} \subseteq S \cap T
  BY DEF Lists
<1> QED
  BY <1>1, <1>2, ListsGrow

\* Lists that share nothing make a list.
LEMMA ListsJoin ==
  ASSUME NEW S, NEW T, NEW s \in Lists(S), NEW t \in Lists(T), S \cap T = {}
  PROVE  s \o t \in Lists(S \cup T)
<1>0. s \in Seq(S \cup T) /\ t \in Seq(S \cup T) /\ Len(s) \in Nat /\ Len(t) \in Nat
  BY DEF Lists
<1>1. s \o t \in Seq(S \cup T) /\ Len(s \o t) = Len(s) + Len(t)
  BY <1>0
<1>2. \A i \in 1 .. Len(s \o t) :
        /\ i <= Len(s) => (s \o t)[i] = s[i] /\ s[i] \in S
        /\ i > Len(s) => (s \o t)[i] = t[i - Len(s)] /\ t[i - Len(s)] \in T /\ i - Len(s) \in 1 .. Len(t)
  BY <1>0, <1>1 DEF Lists
<1>3. ASSUME NEW i \in 1 .. Len(s \o t), NEW j \in 1 .. Len(s \o t), (s \o t)[i] = (s \o t)[j] PROVE i = j
  <2>0. i \in Nat /\ j \in Nat
    BY <1>0, <1>1
  <2>1. CASE i <= Len(s) /\ j <= Len(s)
    BY <1>0, <1>2, <1>3, <2>0, <2>1 DEF Lists
  <2>2. CASE i > Len(s) /\ j > Len(s)
    <3>1. t[i - Len(s)] = t[j - Len(s)]
      BY <1>2, <1>3, <2>2
    <3>2. i - Len(s) = j - Len(s)
      BY <1>2, <2>2, <3>1 DEF Lists
    <3> QED
      BY <1>0, <2>0, <3>2
  <2>3. CASE i <= Len(s) /\ j > Len(s)
    BY <1>2, <1>3, <2>3
  <2>4. CASE i > Len(s) /\ j <= Len(s)
    BY <1>2, <1>3, <2>4
  <2> QED
    BY <1>0, <2>0, <2>1, <2>2, <2>3, <2>4
<1> QED
  BY <1>1, <1>3 DEF Lists

\* A turn of a list is a list of the same.
LEMMA TurnOf ==
  ASSUME NEW L \in Nat \ {0}, NEW k \in 0 .. (L - 1), NEW i \in 1 .. L
  PROVE  ((k + i - 1) % L) + 1 = IF k + i - 1 < L THEN k + i ELSE k + i - L
OBVIOUS

LEMMA RotatedIsList ==
  ASSUME NEW S, NEW seq \in Lists(S), NEW k \in 0 .. (Len(seq) - 1), Len(seq) # 0
  PROVE  Rotated(seq, k) \in Lists(S)
<1> DEFINE L == Len(seq)
           at(i) == ((k + i - 1) % L) + 1
<1>0. L \in Nat \ {0} /\ seq \in Seq(S)
  BY DEF Lists
<1>1. \A i \in 1 .. L : at(i) = IF k + i - 1 < L THEN k + i ELSE k + i - L
  BY <1>0, TurnOf
<1>2. \A i \in 1 .. L : at(i) \in 1 .. L
  BY <1>0, <1>1
<1>3. \A i, j \in 1 .. L : at(i) = at(j) => i = j
  BY <1>0, <1>1, SMTT(30)
<1>4. Rotated(seq, k) = [i \in 1 .. L |-> seq[at(i)]]
  BY DEF Rotated
<1> HIDE DEF at, L
<1>5. Rotated(seq, k) \in Seq(S) /\ Len(Rotated(seq, k)) = L
  <2>1. \A i \in 1 .. L : seq[at(i)] \in S
    BY <1>0, <1>2 DEF L
  <2> QED
    BY <1>0, <1>4, <2>1
<1>6. ASSUME NEW i \in 1 .. L, NEW j \in 1 .. L, Rotated(seq, k)[i] = Rotated(seq, k)[j] PROVE i = j
  <2>1. seq[at(i)] = seq[at(j)]
    BY <1>4, <1>6
  <2>2. at(i) = at(j)
    BY <1>2, <2>1 DEF Lists, L
  <2> QED
    BY <1>3, <2>2
<1> QED
  BY <1>5, <1>6 DEF Lists

LEMMA PartOfList ==
  ASSUME NEW S, NEW seq \in Lists(S), NEW m \in 1 .. (Len(seq) + 1), NEW n \in 0 .. Len(seq)
  PROVE  /\ SubSeq(seq, m, n) \in Lists(S)
         /\ Len(SubSeq(seq, m, n)) = IF m <= n THEN n - m + 1 ELSE 0
         /\ \A i \in 1 .. Len(SubSeq(seq, m, n)) : SubSeq(seq, m, n)[i] = seq[m + i - 1] /\ m + i - 1 \in m .. n
<1>0. seq \in Seq(S) /\ Len(seq) \in Nat
  BY DEF Lists
<1>1. Len(SubSeq(seq, m, n)) = IF m <= n THEN n - m + 1 ELSE 0
  BY <1>0
<1>2. \A i \in 1 .. Len(SubSeq(seq, m, n)) : SubSeq(seq, m, n)[i] = seq[m + i - 1] /\ m + i - 1 \in m .. n
  BY <1>0, <1>1
<1>3. SubSeq(seq, m, n) \in Seq(S)
  BY <1>0
<1>4. ASSUME NEW i \in 1 .. Len(SubSeq(seq, m, n)), NEW j \in 1 .. Len(SubSeq(seq, m, n)),
             SubSeq(seq, m, n)[i] = SubSeq(seq, m, n)[j]
      PROVE  i = j
  <2>1. seq[m + i - 1] = seq[m + j - 1] /\ m + i - 1 \in 1 .. Len(seq) /\ m + j - 1 \in 1 .. Len(seq)
    BY <1>0, <1>2, <1>4
  <2>2. m + i - 1 = m + j - 1
    BY <2>1 DEF Lists
  <2> QED
    BY <1>0, <1>1, <2>2
<1> QED
  BY <1>1, <1>2, <1>3, <1>4 DEF Lists
(* ---------------------------------------------------------------------- *)
(* The scan of a venue: what it asks for, and its breaker                  *)

LEMMA LeastOfTwo ==
  ASSUME NEW a \in Int, NEW b \in Int
  PROVE  Min({a, b}) = (IF a <= b THEN a ELSE b)
<1>1. \A x \in {a, b} : (\A y \in {a, b} : x <= y) => x = (IF a <= b THEN a ELSE b)
  OBVIOUS
<1>2. \E x \in {a, b} : \A y \in {a, b} : x <= y
  OBVIOUS
<1> QED
  BY <1>1, <1>2 DEF Min

LEMMA BackoffIsANumber ==
  ASSUME NEW n \in Int, n >= 0, NEW most \in Nat
  PROVE  Backoff(n, most) \in Int
<1>1. 2 ^ n \in Int
  <2>1. n \in Nat
    OBVIOUS
  <2> QED
    BY <2>1
<1> QED
  BY <1>1, LeastOfTwo DEF Backoff

\* The lists a scan is made of.
LEMMA SourcesAreLists ==
  /\ Universe \in Lists(VenueSymbol)
  /\ Configured \in Lists(VenueSymbol)
  /\ StatusRows \in Lists(VenueSymbol)
BY VenueAssumption DEF Lists

LEMMA ListedIsList ==
  ASSUME NEW page \in BOOLEAN, NEW universe \in BOOLEAN
  PROVE  Listed(page, universe) \in Lists(VenueSymbol)
<1> DEFINE head == StatusListed(page, universe)
           R == Range(head)
<1>1. head \in Lists(VenueSymbol)
  <2>1. <<>> \in Lists(VenueSymbol)
    BY DEF Lists
  <2>2. Among(StatusRows, Range(Universe)) \in Lists(VenueSymbol)
    <3>1. Among(StatusRows, Range(Universe)) \in Lists(VenueSymbol \cap Range(Universe))
      BY SourcesAreLists, AmongIsList
    <3>2. VenueSymbol \cap Range(Universe) \subseteq VenueSymbol
      OBVIOUS
    <3> QED
      BY <3>1, <3>2, ListsGrow
  <2> QED
    BY <2>1, <2>2, SourcesAreLists DEF StatusListed
<1> HIDE DEF head
<1>2. head \in Lists(R) /\ R \subseteq VenueSymbol
  BY <1>1 DEF Lists, Range
<1>3. ConfiguredSymbols(universe) \in Lists(VenueSymbol)
  BY SourcesAreLists DEF ConfiguredSymbols
<1>4. Among(ConfiguredSymbols(universe), VenueSymbol \ R) \in Lists(VenueSymbol \ R)
  <2>1. Among(ConfiguredSymbols(universe), VenueSymbol \ R) \in Lists(VenueSymbol \cap (VenueSymbol \ R))
    BY <1>3, AmongIsList
  <2>2. VenueSymbol \cap (VenueSymbol \ R) = VenueSymbol \ R
    OBVIOUS
  <2> QED
    BY <2>1, <2>2
<1>5. head \o Among(ConfiguredSymbols(universe), VenueSymbol \ R) \in Lists(R \cup (VenueSymbol \ R))
  <2>1. R \cap (VenueSymbol \ R) = {}
    OBVIOUS
  <2> QED
    BY <1>2, <1>4, <2>1, ListsJoin
<1>6. R \cup (VenueSymbol \ R) = VenueSymbol
  BY <1>2
<1> QED
  BY <1>5, <1>6 DEF Listed, head

LEMMA SelectedIsList ==
  ASSUME NEW S, NEW seq \in Lists(S), NEW sure
  PROVE  Selected(seq, sure) \in Lists(S)
<1> DEFINE taken(i) == seq[i] \in sure \/ Cardinality({j \in 1 .. i : seq[j] \notin sure}) <= ProbeLimit
           ids == {i \in 1 .. Len(seq) : taken(i)}
<1>1. Selected(seq, sure) = Sublist(seq, ids)
  BY DEF Selected
<1>2. ids \subseteq 1 .. Len(seq)
  OBVIOUS
<1> HIDE DEF ids
<1>3. Selected(seq, sure) \in Lists({seq[i] : i \in ids})
  BY <1>1, <1>2, SublistIsList
<1>4. {seq[i] : i \in ids} \subseteq S
  BY <1>2 DEF Lists
<1> QED
  BY <1>3, <1>4, ListsGrow

Out == {f \in flights : f[1] = "scan"}

\* What the requests and the queue of a scan are.
RequestTypes ==
  /\ flights \subseteq {"scan", "held"} \X VenueSymbol \X Int
  /\ IsFiniteSet(flights)
  /\ scan \in [on : BOOLEAN, queue : Seq(VenueSymbol), asked : Int, base : Int, span : Int]
  /\ scan.on => scan.span > 0

\* A scan asks for a symbol once, and for few at a time.
AsksOnce ==
  /\ \A f, g \in Out : f[2] = g[2] => f = g
  /\ scan.queue \in Lists(VenueSymbol)
  /\ \A f \in Out : f[2] \notin Range(scan.queue)
  /\ ~scan.on => scan.queue = <<>> /\ Out = {}
  /\ Cardinality(Out) <= Parallel

\* What is known of the symbols and of the exchange.
ScanTypes ==
  /\ hour \in Nat
  /\ breaker \in [fails : Nat, until : Int]
  /\ streak \in Nat
  /\ strikes \in [VenueSymbol -> Nat]
  /\ coolUntil \in [VenueSymbol -> Int]
  /\ blackUntil \in [VenueSymbol -> Int]
  /\ known \subseteq VenueSymbol
  /\ cursor \in Int

Untripped ==
  /\ breaker.fails <= streak
  /\ breaker.until # 0 => streak >= BreakerThreshold

ScanInv ==
  /\ ScanTypes
  /\ RequestTypes
  /\ AsksOnce
  /\ Untripped
  /\ \A s \in Asking : ~Resting(s)
  /\ \A s \in known : strikes[s] = 0 /\ coolUntil[s] = 0

LEMMA AskedFor == Asking = {f[2] : f \in Out} \cup Range(scan.queue)
BY DEF Asking, Out

\* The rest of a queue.
LEMMA TailOfList ==
  ASSUME NEW S, NEW seq \in Lists(S), seq # <<>>
  PROVE  /\ Head(seq) \in S /\ Head(seq) \in Range(seq)
         /\ Tail(seq) \in Lists(S)
         /\ Range(Tail(seq)) \subseteq Range(seq)
         /\ Head(seq) \notin Range(Tail(seq))
<1>0. seq \in Seq(S) /\ Len(seq) \in Nat \ {0}
  BY DEF Lists
<1>1. Tail(seq) \in Seq(S) /\ Len(Tail(seq)) = Len(seq) - 1
  BY <1>0
<1>2. \A i \in 1 .. Len(Tail(seq)) : Tail(seq)[i] = seq[i + 1] /\ i + 1 \in 1 .. Len(seq) /\ i + 1 # 1
  BY <1>0, <1>1
<1>3. Head(seq) = seq[1] /\ 1 \in 1 .. Len(seq)
  BY <1>0
<1>4. Range(seq) = {seq[i] : i \in 1 .. Len(seq)} /\ Range(Tail(seq)) = {Tail(seq)[i] : i \in 1 .. Len(Tail(seq))}
  <2>1. DOMAIN seq = 1 .. Len(seq) /\ DOMAIN Tail(seq) = 1 .. Len(Tail(seq))
    BY <1>0, <1>1
  <2> QED
    BY <2>1 DEF Range
<1>5. Head(seq) \in S /\ Head(seq) \in Range(seq)
  BY <1>0, <1>3, <1>4
<1>6. Range(Tail(seq)) \subseteq Range(seq)
  BY <1>2, <1>4
<1>7. Head(seq) \notin Range(Tail(seq))
  <2>1. ASSUME NEW i \in 1 .. Len(Tail(seq)), Tail(seq)[i] = Head(seq) PROVE FALSE
    BY <1>2, <1>3, <2>1 DEF Lists
  <2> QED
    BY <1>4, <2>1
<1>8. Tail(seq) \in Lists(S)
  <2>1. ASSUME NEW i \in 1 .. Len(Tail(seq)), NEW j \in 1 .. Len(Tail(seq)), Tail(seq)[i] = Tail(seq)[j]
        PROVE  i = j
    <3>1. i + 1 = j + 1
      BY <1>2, <2>1 DEF Lists
    <3> QED
      BY <1>1, <3>1
  <2> QED
    BY <1>1, <2>1 DEF Lists
<1> QED
  BY <1>5, <1>6, <1>7, <1>8

\* A request that goes on.
LEMMA SameRequest ==
  ASSUME RequestTypes, AsksOnce, NEW f \in flights, NEW n \in Int,
         flights' = (flights \ {f}) \cup {<<f[1], f[2], n>>}, scan' = scan
  PROVE  RequestTypes' /\ AsksOnce' /\ Asking' = Asking
<1> DEFINE g == <<f[1], f[2], n>>
<1>1. f[1] \in {"scan", "held"} /\ f[2] \in VenueSymbol
  BY DEF RequestTypes
<1>2. g \in {"scan", "held"} \X VenueSymbol \X Int /\ g[1] = f[1] /\ g[2] = f[2]
  BY <1>1
<1> HIDE DEF g
<1>3. flights' = (flights \ {f}) \cup {g}
  BY DEF g
<1>4. IsFiniteSet(flights \ {f}) /\ IsFiniteSet(flights')
  <2>1. IsFiniteSet(flights \ {f})
    BY FS_RemoveElement DEF RequestTypes
  <2>2. IsFiniteSet((flights \ {f}) \cup {g})
    BY <2>1, FS_AddElement
  <2> QED
    BY <1>3, <2>1, <2>2
<1>5. RequestTypes'
  BY <1>2, <1>3, <1>4 DEF RequestTypes
<1>6. IsFiniteSet(Out) /\ Out \subseteq flights
  BY FS_Subset DEF RequestTypes, Out
<1>7. CASE f[1] = "scan"
  <2>1. f \in Out /\ Out' = (Out \ {f}) \cup {g}
    BY <1>2, <1>3, <1>7 DEF Out
  <2>2. Cardinality(Out') <= Cardinality(Out)
    <3>1. IsFiniteSet(Out \ {f}) /\ Cardinality(Out \ {f}) = Cardinality(Out) - 1
      BY <1>6, <2>1, FS_RemoveElement
    <3>2. Cardinality(Out) \in Nat
      BY <1>6, FS_CardinalityType
    <3>3. Cardinality((Out \ {f}) \cup {g}) = IF g \in Out \ {f} THEN Cardinality(Out \ {f}) ELSE Cardinality(Out \ {f}) + 1
      BY <3>1, FS_AddElement
    <3> QED
      BY <2>1, <3>1, <3>2, <3>3
  <2>3. Cardinality(Out) \in Nat /\ Cardinality(Out') \in Nat /\ Parallel \in Nat
    <3>1. IsFiniteSet(Out')
      BY <1>4, FS_Subset DEF Out
    <3> QED
      BY <1>6, <3>1, FS_CardinalityType, VenueAssumption
  <2>4. Cardinality(Out') <= Parallel
    BY <2>2, <2>3 DEF AsksOnce
  <2>5. AsksOnce'
    BY <1>2, <2>1, <2>4 DEF AsksOnce
  <2>6. {h[2] : h \in Out'} = {h[2] : h \in Out}
    BY <1>2, <2>1
  <2> QED
    BY <1>5, <2>5, <2>6 DEF Asking, Out
<1>8. CASE f[1] # "scan"
  <2>1. Out' = Out
    BY <1>2, <1>3, <1>8 DEF Out
  <2> QED
    BY <1>5, <2>1 DEF AsksOnce, Asking, Out
<1> QED
  BY <1>7, <1>8

\* A request that ends, and the one that takes its turn.
LEMMA NextRequest ==
  ASSUME RequestTypes, AsksOnce, NEW f \in flights, NEW n \in Int,
         flights' = Next1(f, n), scan' = Taken(f)
  PROVE  /\ RequestTypes' /\ AsksOnce' /\ Asking' \subseteq Asking
         /\ f[1] = "scan" => f[2] \notin Asking'
<1>1. f[1] \in {"scan", "held"} /\ f[2] \in VenueSymbol
  BY DEF RequestTypes
<1>2. IsFiniteSet(flights \ {f})
  BY FS_RemoveElement DEF RequestTypes
<1>3. IsFiniteSet(Out) /\ Out \subseteq flights /\ Cardinality(Out) \in Nat /\ Parallel \in Nat
  BY FS_Subset, FS_CardinalityType, VenueAssumption DEF RequestTypes, Out
<1>4. CASE f[1] # "scan"
  <2>1. flights' = flights \ {f} /\ scan' = scan
    BY <1>4 DEF Next1, Taken
  <2>2. Out' = Out
    BY <1>4, <2>1 DEF Out
  <2>3. RequestTypes'
    BY <1>2, <2>1 DEF RequestTypes
  <2> QED
    BY <1>4, <2>1, <2>2, <2>3 DEF AsksOnce, Asking, Out
<1>5. CASE f[1] = "scan" /\ scan.queue = <<>>
  <2>1. flights' = flights \ {f} /\ scan' = scan
    BY <1>5 DEF Next1, Taken, RequestTypes
  <2>2. f \in Out /\ Out' = Out \ {f}
    BY <1>5, <2>1 DEF Out
  <2>3. RequestTypes'
    BY <1>2, <2>1 DEF RequestTypes
  <2>4. Cardinality(Out') <= Parallel
    <3>1. Cardinality(Out \ {f}) = Cardinality(Out) - 1
      BY <1>3, <2>2, FS_RemoveElement
    <3> QED
      BY <1>3, <2>2, <3>1 DEF AsksOnce
  <2>5. AsksOnce'
    BY <2>1, <2>2, <2>4 DEF AsksOnce
  <2>6. Asking' \subseteq Asking /\ f[2] \notin Asking'
    <3>1. Asking' = {h[2] : h \in Out'} \cup Range(scan.queue)
      BY <2>1 DEF Asking, Out
    <3> QED
      BY <2>2, <3>1, AskedFor DEF AsksOnce
  <2> QED
    BY <2>3, <2>5, <2>6
<1>6. CASE f[1] = "scan" /\ scan.queue # <<>>
  <2> DEFINE g == <<"scan", Head(scan.queue), n>>
             rest == Tail(scan.queue)
  <2>1. flights' = (flights \ {f}) \cup {g}
    BY <1>6 DEF Next1
  <2>2. scan' = [scan EXCEPT !.queue = rest, !.asked = @ + 1]
    BY <1>6 DEF Taken, RequestTypes
  <2>3. /\ Head(scan.queue) \in VenueSymbol /\ Head(scan.queue) \in Range(scan.queue)
        /\ rest \in Lists(VenueSymbol) /\ Range(rest) \subseteq Range(scan.queue)
        /\ Head(scan.queue) \notin Range(rest)
    BY <1>6, TailOfList DEF AsksOnce
  <2>4. g[1] = "scan" /\ g[2] = Head(scan.queue) /\ g \in {"scan", "held"} \X VenueSymbol \X Int
    BY <2>3
  <2> HIDE DEF g, rest
  <2>5. f \in Out /\ Out' = (Out \ {f}) \cup {g}
    BY <1>6, <2>1, <2>4 DEF Out
  <2>6. scan.on /\ rest \in Seq(VenueSymbol)
    BY <2>3, <2>5 DEF AsksOnce, Lists
  <2>7. scan'.on = scan.on /\ scan'.queue = rest /\ scan'.span = scan.span
        /\ scan' \in [on : BOOLEAN, queue : Seq(VenueSymbol), asked : Int, base : Int, span : Int]
    <3>1. scan' = [on |-> scan.on, queue |-> rest, asked |-> scan.asked + 1, base |-> scan.base, span |-> scan.span]
      BY <2>2 DEF RequestTypes
    <3>2. scan.on \in BOOLEAN /\ scan.asked + 1 \in Int /\ scan.base \in Int /\ scan.span \in Int
      BY DEF RequestTypes
    <3> QED
      BY <2>6, <3>1, <3>2
  <2>8. IsFiniteSet(flights')
    BY <1>2, <2>1, FS_AddElement
  <2>9. RequestTypes'
    BY <2>1, <2>4, <2>7, <2>8 DEF RequestTypes
  <2>10. Cardinality(Out') <= Parallel
    <3>1. IsFiniteSet(Out \ {f}) /\ Cardinality(Out \ {f}) = Cardinality(Out) - 1
      BY <1>3, <2>5, FS_RemoveElement
    <3>2. Cardinality((Out \ {f}) \cup {g}) = IF g \in Out \ {f} THEN Cardinality(Out \ {f}) ELSE Cardinality(Out \ {f}) + 1
      BY <3>1, FS_AddElement
    <3> QED
      BY <1>3, <2>5, <3>1, <3>2 DEF AsksOnce
  <2>11. \A h \in Out \ {f} : h[2] # Head(scan.queue) /\ h[2] # f[2] /\ h[2] \notin Range(rest)
    BY <2>3, <2>5 DEF AsksOnce
  <2>12. f[2] # Head(scan.queue) /\ f[2] \notin Range(rest)
    BY <2>3, <2>5 DEF AsksOnce
  <2>13. AsksOnce'
    <3>1. \A h, k \in Out' : h[2] = k[2] => h = k
      BY <2>4, <2>5, <2>11 DEF AsksOnce
    <3>2. \A h \in Out' : h[2] \notin Range(rest)
      BY <2>3, <2>4, <2>5, <2>11
    <3> QED
      BY <2>3, <2>6, <2>7, <2>10, <3>1, <3>2 DEF AsksOnce
  <2>14. Asking' = {h[2] : h \in Out'} \cup Range(rest)
    BY <2>7 DEF Asking, Out
  <2>15. Asking' \subseteq Asking /\ f[2] \notin Asking'
    BY <2>3, <2>4, <2>5, <2>11, <2>12, <2>14, AskedFor
  <2> QED
    BY <2>9, <2>13, <2>15
<1> QED
  BY <1>4, <1>5, <1>6

LEMMA ImageIsSmall ==
  ASSUME NEW S, IsFiniteSet(S), NEW f, f = [x \in S |-> f[x]]
  PROVE  IsFiniteSet({f[x] : x \in S}) /\ Cardinality({f[x] : x \in S}) <= Cardinality(S)
<1>1. f \in Surjection(S, {f[x] : x \in S})
  BY DEF Surjection
<1> QED
  BY <1>1, FS_Surjection

\* What a scan begins with.
LEMMA BeginScanAsks ==
  ASSUME ScanInv, NEW page \in BOOLEAN, NEW universe \in BOOLEAN, BeginScan(page, universe)
  PROVE  RequestTypes' /\ AsksOnce' /\ \A s \in Asking' : ~Resting(s)
<1> DEFINE eligible == Eligible(Listed(page, universe))
           span == Len(eligible)
           base == cursor % span
           selected == Selected(Rotated(eligible, base), known \cup Range(StatusListed(page, universe)))
           targets == SubSeq(selected, 1, Min({ScanLimit, Len(selected)}))
           first == Min({Parallel, Len(targets)})
           rest == SubSeq(targets, first + 1, Len(targets))
           awake == {s \in VenueSymbol : ~Resting(s)}
           asked(i) == <<"scan", targets[i], 0>>
           new == {<<"scan", targets[i], 0>> : i \in 1 .. first}
<1>0. ~scan.on /\ scan.queue = <<>> /\ Out = {} /\ cursor \in Int /\ Parallel \in Nat /\ ScanLimit \in Nat
  BY VenueAssumption DEF BeginScan, ScanInv, AsksOnce, ScanTypes
<1>1. CASE span = 0
  <2>1. UNCHANGED <<scan, flights>>
    BY <1>1 DEF BeginScan
  <2> QED
    BY <2>1 DEF ScanInv, RequestTypes, AsksOnce, Asking, Out
<1>2. CASE span # 0
  <2>1. eligible \in Lists(awake)
    <3>1. eligible \in Lists(VenueSymbol \cap awake)
      BY ListedIsList, AmongIsList DEF Eligible
    <3>2. VenueSymbol \cap awake \subseteq awake
      OBVIOUS
    <3> QED
      BY <3>1, <3>2, ListsGrow
  <2>2. span \in Nat \ {0}
    BY <1>2, <2>1 DEF Lists
  <2>3. base \in 0 .. (span - 1)
    BY <1>0, <2>2
  <2> HIDE DEF eligible, base
  <2>4. selected \in Lists(awake)
    BY <1>2, <2>1, <2>3, RotatedIsList, SelectedIsList
  <2> HIDE DEF selected
  <2>5. Len(selected) \in Nat
    BY <2>4 DEF Lists
  <2>6. Min({ScanLimit, Len(selected)}) \in 0 .. Len(selected)
    <3>1. ScanLimit \in Int /\ Len(selected) \in Int /\ ScanLimit >= 0 /\ Len(selected) >= 0
      BY <1>0, <2>5
    <3>2. Min({ScanLimit, Len(selected)}) = IF ScanLimit <= Len(selected) THEN ScanLimit ELSE Len(selected)
      BY <3>1, LeastOfTwo
    <3> QED
      BY <3>1, <3>2
  <2>7. targets \in Lists(awake)
    <3>1. 1 \in 1 .. (Len(selected) + 1)
      BY <2>5
    <3> QED
      BY <2>4, <2>6, <3>1, PartOfList
  <2> HIDE DEF targets
  <2>8. Len(targets) \in Nat /\ targets \in Seq(awake) /\ awake \subseteq VenueSymbol
    BY <2>7 DEF Lists
  <2>9. first \in 0 .. Len(targets) /\ first <= Parallel
    <3>1. Parallel \in Int /\ Len(targets) \in Int /\ Parallel >= 0 /\ Len(targets) >= 0
      BY <1>0, <2>8
    <3>2. first = IF Parallel <= Len(targets) THEN Parallel ELSE Len(targets)
      BY <3>1, LeastOfTwo
    <3> HIDE DEF first
    <3> QED
      BY <3>1, <3>2
  <2> HIDE DEF first
  <2>10. /\ rest \in Lists(awake)
         /\ \A i \in 1 .. Len(rest) : rest[i] = targets[first + 1 + i - 1] /\ first + 1 + i - 1 \in (first + 1) .. Len(targets)
    <3>1. first + 1 \in 1 .. (Len(targets) + 1) /\ Len(targets) \in 0 .. Len(targets)
      BY <2>8, <2>9
    <3> QED
      BY <2>7, <3>1, PartOfList
  <2> HIDE DEF rest
  <2>11. /\ scan' = [on |-> TRUE, queue |-> rest, asked |-> first, base |-> base, span |-> span]
         /\ flights' = flights \cup new
    BY <1>2 DEF BeginScan, eligible, base, selected, targets, first, rest
  <2>12. \A i \in 1 .. first : i \in 1 .. Len(targets) /\ targets[i] \in awake /\ asked(i) \in {"scan", "held"} \X VenueSymbol \X Int
    BY <2>8, <2>9
  <2>13. IsFiniteSet(new) /\ Cardinality(new) <= Parallel
    <3> DEFINE a == [i \in 1 .. first |-> asked(i)]
    <3>1. IsFiniteSet(1 .. first) /\ Cardinality(1 .. first) = first
      <4>1. first \in Int /\ 1 \in Int /\ first >= 0
        BY <2>9
      <4> QED
        BY <4>1, FS_Interval
    <3>2. {a[i] : i \in 1 .. first} = new
      OBVIOUS
    <3>3. a = [i \in 1 .. first |-> a[i]]
      OBVIOUS
    <3> HIDE DEF a
    <3>4. IsFiniteSet(new) /\ Cardinality(new) <= first
      <4>1. IsFiniteSet({a[i] : i \in 1 .. first}) /\ Cardinality({a[i] : i \in 1 .. first}) <= Cardinality(1 .. first)
        BY <3>1, <3>3, ImageIsSmall
      <4> HIDE DEF new
      <4> QED
        BY <3>1, <3>2, <4>1
    <3>5. Cardinality(new) \in Nat
      BY <3>4, FS_CardinalityType
    <3> QED
      BY <1>0, <2>9, <3>4, <3>5
  <2>14. Out' = new
    <3>1. \A g \in new : g[1] = "scan"
      OBVIOUS
    <3>2. Out' = {f \in flights \cup new : f[1] = "scan"}
      BY <2>11 DEF Out
    <3> QED
      BY <1>0, <3>1, <3>2 DEF Out
  <2>15. RequestTypes'
    <3>1. new \subseteq {"scan", "held"} \X VenueSymbol \X Int
      BY <2>12
    <3>2. IsFiniteSet(flights \cup new)
      BY <2>13, FS_Union DEF ScanInv, RequestTypes
    <3>3. rest \in Seq(VenueSymbol) /\ first \in Int /\ base \in Int /\ span \in Int /\ span > 0
      BY <2>2, <2>3, <2>8, <2>9, <2>10 DEF Lists
    <3>4. scan' \in [on : BOOLEAN, queue : Seq(VenueSymbol), asked : Int, base : Int, span : Int] /\ scan'.span > 0
      BY <2>11, <3>3
    <3> QED
      BY <2>11, <3>1, <3>2, <3>4 DEF ScanInv, RequestTypes
  <2>16. Range(rest) \subseteq awake
    <3>1. DOMAIN rest = 1 .. Len(rest) /\ \A i \in 1 .. Len(rest) : rest[i] \in awake
      BY <2>10 DEF Lists
    <3> QED
      BY <3>1 DEF Range
  <2>17. \A i \in 1 .. first : targets[i] \notin Range(rest)
    <3> SUFFICES ASSUME NEW i \in 1 .. first, targets[i] \in Range(rest) PROVE FALSE
      OBVIOUS
    <3>1. PICK j \in 1 .. Len(rest) : rest[j] = targets[i]
      <4>1. DOMAIN rest = 1 .. Len(rest)
        BY <2>10 DEF Lists
      <4> QED
        BY <4>1 DEF Range
    <3>2. targets[first + 1 + j - 1] = targets[i] /\ first + 1 + j - 1 \in (first + 1) .. Len(targets)
      BY <2>10, <3>1
    <3>3. i \in 1 .. Len(targets) /\ first + 1 + j - 1 \in 1 .. Len(targets)
      BY <2>9, <2>12, <3>2
    <3>4. first + 1 + j - 1 = i
      BY <2>7, <3>2, <3>3 DEF Lists
    <3> QED
      BY <2>9, <3>2, <3>4
  <2>18. AsksOnce'
    <3>1. \A f, g \in new : f[2] = g[2] => f = g
      OBVIOUS
    <3>2. \A f \in new : f[2] \notin Range(rest)
      BY <2>17
    <3>3. rest \in Lists(VenueSymbol)
      BY <2>8, <2>10, ListsGrow
    <3>4. scan'.on /\ scan'.queue = rest
      BY <2>11
    <3> QED
      BY <2>13, <2>14, <3>1, <3>2, <3>3, <3>4 DEF AsksOnce
  <2>19. \A s \in Asking' : ~Resting(s)
    <3>1. Asking' = {f[2] : f \in new} \cup Range(rest)
      BY <2>11, <2>14 DEF Asking, Out
    <3>2. \A f \in new : f[2] \in awake
      BY <2>12
    <3> QED
      BY <2>16, <3>1, <3>2
  <2> QED
    BY <2>15, <2>18, <2>19
<1> QED
  BY <1>1, <1>2

\* A request for the markets of held assets leaves the scan alone.
LEMMA BeginHeldAsks ==
  ASSUME ScanInv, NEW ok \in BOOLEAN, NEW page \in BOOLEAN, NEW universe \in BOOLEAN,
         BeginHeld(ok, page, universe)
  PROVE  RequestTypes' /\ AsksOnce' /\ Asking' = Asking
<1> DEFINE listed == Range(Listed(page, universe))
           targets == IF ok /\ listed # {} THEN HeldMarkets \cap listed ELSE HeldMarkets
           new == {<<"held", s, 0>> : s \in targets}
           a == [s \in targets |-> <<"held", s, 0>>]
<1>1. flights' = flights \cup new /\ scan' = scan
  BY DEF BeginHeld
<1>2. targets \subseteq VenueSymbol /\ IsFiniteSet(targets)
  <2>1. targets \subseteq HeldMarkets
    OBVIOUS
  <2>2. HeldMarkets \subseteq VenueSymbol
    BY DEF VenueSymbol
  <2> QED
    BY <2>1, <2>2, VenueAssumption, FS_Subset
<1> HIDE DEF targets
<1>3. IsFiniteSet(new)
  <2>1. {a[s] : s \in targets} = new
    OBVIOUS
  <2>2. a = [s \in targets |-> a[s]]
    OBVIOUS
  <2> HIDE DEF a
  <2>3. IsFiniteSet({a[s] : s \in targets})
    BY <1>2, <2>2, ImageIsSmall
  <2> QED
    BY <2>1, <2>3
<1>4. new \subseteq {"scan", "held"} \X VenueSymbol \X Int
  BY <1>2
<1>5. \A g \in new : g[1] = "held"
  OBVIOUS
<1> HIDE DEF new
<1>6. Out' = Out
  BY <1>1, <1>5 DEF Out
<1>7. IsFiniteSet(flights')
  BY <1>1, <1>3, FS_Union DEF ScanInv, RequestTypes
<1>8. RequestTypes'
  BY <1>1, <1>4, <1>7 DEF ScanInv, RequestTypes
<1>9. AsksOnce'
  BY <1>1, <1>6 DEF ScanInv, AsksOnce
<1>10. Asking' = Asking
  BY <1>1, <1>6 DEF Asking, Out
<1> QED
  BY <1>8, <1>9, <1>10

LEMMA ScanInitially == ScanInit => ScanInv
<1> SUFFICES ASSUME ScanInit PROVE ScanInv
  OBVIOUS
<1>1. ScanTypes /\ Untripped
  BY VenueAssumption DEF ScanInit, ScanTypes, Untripped, Calm
<1>2. RequestTypes
  BY FS_EmptySet DEF ScanInit, RequestTypes, NoScan
<1>3. Out = {} /\ scan.queue = <<>> /\ Cardinality(Out) = 0 /\ Parallel \in Nat
  BY FS_EmptySet, VenueAssumption DEF Out, ScanInit, NoScan
<1>4. Range(<<>>) = {}
  BY DEF Range
<1>5. AsksOnce
  BY <1>3 DEF AsksOnce, Lists
<1>6. Asking = {}
  BY <1>3, <1>4, AskedFor
<1> QED
  BY <1>1, <1>2, <1>5, <1>6 DEF ScanInv, ScanInit

LEMMA ScanStep == ScanInv /\ [ScanNext]_scanVars => ScanInv'
<1> SUFFICES ASSUME ScanInv, [ScanNext]_scanVars PROVE ScanInv'
  OBVIOUS
<1> USE DEF ScanInv
<1>a. Attempts \in Nat /\ Raw \in Int /\ BreakerThreshold \in Nat /\ BreakerMax \in Nat /\ CoolMax \in Nat /\ BlackTime \in Nat
  BY VenueAssumption DEF Raw
<1>b. \A f \in flights : f[2] \in VenueSymbol /\ f[1] \in {"scan", "held"} /\ f[3] \in Int
  BY DEF RequestTypes
<1>c. hour \in Nat /\ streak \in Nat /\ breaker.fails \in Nat /\ breaker.fails <= streak
  BY DEF ScanTypes, Untripped
\* What the steps do to the exchange and to what is asked for.
<1>d. RecordSuccess => Untripped' /\ breaker' \in [fails : Nat, until : Int] /\ streak' \in Nat
  BY <1>a DEF RecordSuccess, Calm, Untripped
<1>e. ASSUME RecordFailure("outage") PROVE Untripped' /\ breaker' \in [fails : Nat, until : Int] /\ streak' \in Nat
  <2> DEFINE n == breaker.fails + 1
             u == IF n >= BreakerThreshold THEN hour + Backoff(n - BreakerThreshold, BreakerMax) ELSE breaker.until
  <2>1. breaker' = [fails |-> n, until |-> u] /\ streak' = streak + 1
    BY <1>e DEF RecordFailure
  <2>2. u \in Int
    <3>1. n >= BreakerThreshold => Backoff(n - BreakerThreshold, BreakerMax) \in Int
      BY <1>a, <1>c, BackoffIsANumber
    <3>2. breaker.until \in Int
      BY DEF ScanTypes
    <3> QED
      BY <1>c, <3>1, <3>2
  <2>3. u # 0 => streak + 1 >= BreakerThreshold
    BY <1>a, <1>c DEF Untripped
  <2> HIDE DEF u
  <2> QED
    BY <1>c, <2>1, <2>2, <2>3 DEF Untripped
<1>f. ASSUME UNCHANGED <<breaker, streak>> PROVE Untripped' /\ breaker' \in [fails : Nat, until : Int] /\ streak' \in Nat
  BY <1>f DEF Untripped, ScanTypes
<1>g. ASSUME Asking' \subseteq Asking, UNCHANGED <<hour, coolUntil, blackUntil>> PROVE \A s \in Asking' : ~Resting(s)'
  BY <1>g DEF Resting
<1>1. ASSUME NEW page \in BOOLEAN, NEW universe \in BOOLEAN, BeginScan(page, universe) PROVE ScanInv'
  <2>1. RequestTypes' /\ AsksOnce' /\ \A s \in Asking' : ~Resting(s)
    BY <1>1, BeginScanAsks
  <2>2. UNCHANGED <<hour, strikes, coolUntil, blackUntil, known, cursor>> /\ RecordSuccess
    BY <1>1 DEF BeginScan
  <2>3. ScanTypes' /\ Untripped'
    BY <1>d, <2>2 DEF ScanTypes
  <2>4. \A s \in Asking' : ~Resting(s)'
    BY <2>1, <2>2 DEF Resting
  <2> QED
    BY <2>1, <2>2, <2>3, <2>4
<1>2. ASSUME NEW ok \in BOOLEAN, NEW page \in BOOLEAN, NEW universe \in BOOLEAN, BeginHeld(ok, page, universe)
      PROVE  ScanInv'
  <2>1. RequestTypes' /\ AsksOnce' /\ Asking' = Asking
    BY <1>2, BeginHeldAsks
  <2>2. UNCHANGED <<hour, strikes, coolUntil, blackUntil, known, cursor>>
    BY <1>2 DEF BeginHeld
  <2>3. RecordSuccess \/ UNCHANGED <<breaker, streak>>
    BY <1>2 DEF BeginHeld
  <2>4. ScanTypes' /\ Untripped'
    BY <1>d, <1>f, <2>2, <2>3 DEF ScanTypes
  <2> QED
    BY <1>g, <2>1, <2>2, <2>4
<1>3. ASSUME NEW f \in flights, StartRequest(f) PROVE ScanInv'
  <2>1. RequestTypes' /\ AsksOnce' /\ Asking' \subseteq Asking
    <3>1. CASE BreakerOpen
      BY <1>3, <3>1, NextRequest DEF StartRequest
    <3>2. CASE ~BreakerOpen
      BY <1>3, <3>2, SameRequest DEF StartRequest
    <3> QED
      BY <3>1, <3>2
  <2>2. UNCHANGED <<hour, strikes, coolUntil, blackUntil, known, cursor, streak>>
    BY <1>3 DEF StartRequest
  <2>3. breaker' = breaker \/ breaker' = [fails |-> breaker.fails, until |-> 0]
    BY <1>3 DEF StartRequest, ScanTypes
  <2>4. ScanTypes' /\ Untripped'
    BY <1>c, <2>2, <2>3 DEF ScanTypes, Untripped
  <2> QED
    BY <1>g, <2>1, <2>2, <2>4
<1>4. ASSUME NEW f \in flights, Answered(f) PROVE ScanInv'
  <2>1. RequestTypes' /\ AsksOnce' /\ Asking' \subseteq Asking
    BY <1>4, NextRequest DEF Answered
  <2>2. RecordSuccess \/ UNCHANGED <<breaker, streak>>
    BY <1>4 DEF Answered
  <2>3. UNCHANGED <<hour, cursor>>
    BY <1>4 DEF Answered
  <2>4. CASE f[1] # "scan"
    <3>1. UNCHANGED <<known, strikes, coolUntil, blackUntil>>
      BY <1>4, <2>4 DEF Answered
    <3>2. ScanTypes' /\ Untripped'
      BY <1>d, <1>f, <2>2, <2>3, <3>1 DEF ScanTypes
    <3> QED
      BY <1>g, <2>1, <2>3, <3>1, <3>2
  <2>5. CASE f[1] = "scan"
    <3>1. /\ known' = known \cup {f[2]}
          /\ strikes' = [strikes EXCEPT ![f[2]] = 0]
          /\ coolUntil' = [coolUntil EXCEPT ![f[2]] = 0]
          /\ blackUntil' = [blackUntil EXCEPT ![f[2]] = 0]
      BY <1>4, <2>5 DEF Answered
    <3>2. ScanTypes' /\ Untripped'
      BY <1>b, <1>d, <1>f, <2>2, <2>3, <3>1 DEF ScanTypes
    <3>3. \A s \in known' : strikes'[s] = 0 /\ coolUntil'[s] = 0
      BY <1>b, <3>1 DEF ScanTypes
    <3>4. \A s \in Asking' : s # f[2]
      BY <1>4, <2>5, NextRequest DEF Answered
    <3>5. \A s \in Asking' : ~Resting(s)'
      BY <2>1, <2>3, <3>1, <3>4 DEF Resting, ScanTypes
    <3> QED
      BY <2>1, <3>2, <3>3, <3>5
  <2> QED
    BY <2>4, <2>5
<1>5. ASSUME NEW f \in flights, NoData(f) PROVE ScanInv'
  <2>1. RequestTypes' /\ AsksOnce' /\ Asking' \subseteq Asking
    BY <1>5, NextRequest DEF NoData
  <2>2. UNCHANGED <<breaker, streak>>
    BY <1>5 DEF NoData, CountsAsOutage
  <2>3. UNCHANGED <<hour, cursor>>
    BY <1>5 DEF NoData
  <2>4. CASE f[1] # "scan"
    <3>1. UNCHANGED <<known, strikes, coolUntil, blackUntil>>
      BY <1>5, <2>4 DEF NoData
    <3>2. ScanTypes' /\ Untripped'
      BY <1>f, <2>2, <2>3, <3>1 DEF ScanTypes
    <3> QED
      BY <1>g, <2>1, <2>3, <3>1, <3>2
  <2>5. CASE f[1] = "scan"
    <3> DEFINE n == strikes[f[2]] + 1
               c == hour + Backoff(n - 1, CoolMax)
               k == hour + BlackTime
    <3>1. /\ known' = known \ {f[2]}
          /\ strikes' = [strikes EXCEPT ![f[2]] = n]
          /\ coolUntil' = [coolUntil EXCEPT ![f[2]] = c]
          /\ blackUntil' = IF n >= BlackStrikes THEN [blackUntil EXCEPT ![f[2]] = k] ELSE blackUntil
      BY <1>5, <2>5 DEF NoData
    <3>2. n \in Nat /\ c \in Int /\ k \in Int
      <4>1. strikes[f[2]] \in Nat
        BY <1>b DEF ScanTypes
      <4>2. n - 1 \in Int /\ n - 1 >= 0
        BY <4>1
      <4> QED
        BY <1>a, <1>c, <4>1, <4>2, BackoffIsANumber
    <3> HIDE DEF n, c, k
    <3>3. ScanTypes'
      <4>1. blackUntil' \in [VenueSymbol -> Int]
        BY <1>b, <3>1, <3>2 DEF ScanTypes
      <4> QED
        BY <1>b, <1>f, <2>2, <2>3, <3>1, <3>2, <4>1 DEF ScanTypes
    <3>4. \A s \in known' : strikes'[s] = 0 /\ coolUntil'[s] = 0
      BY <1>b, <3>1 DEF ScanTypes
    <3>5. \A s \in Asking' : s # f[2]
      BY <1>5, <2>5, NextRequest DEF NoData
    <3>6. \A s \in VenueSymbol : s # f[2] => coolUntil'[s] = coolUntil[s] /\ blackUntil'[s] = blackUntil[s]
      BY <1>b, <3>1 DEF ScanTypes
    <3>7. Asking' \subseteq VenueSymbol
      <4>1. \A g \in Out : g[2] \in VenueSymbol
        BY <1>b DEF Out
      <4>2. Range(scan.queue) \subseteq VenueSymbol
        BY DEF AsksOnce, Lists, Range
      <4> QED
        BY <2>1, <4>1, <4>2, AskedFor
    <3>8. \A s \in Asking' : ~Resting(s)'
      BY <2>1, <2>3, <3>5, <3>6, <3>7 DEF Resting
    <3> QED
      BY <1>f, <2>1, <2>2, <3>3, <3>4, <3>8
  <2> QED
    BY <2>4, <2>5
<1>6. ASSUME NEW f \in flights, Outage(f) PROVE ScanInv'
  <2>1. RequestTypes' /\ AsksOnce' /\ Asking' \subseteq Asking
    <3>1. CASE f[3] < Attempts
      <4>1. f[3] + 1 \in Int
        BY <1>b
      <4> QED
        BY <1>6, <3>1, <4>1, SameRequest DEF Outage
    <3>2. CASE ~(f[3] < Attempts)
      BY <1>6, <3>2, NextRequest DEF Outage
    <3> QED
      BY <3>1, <3>2
  <2>2. RecordFailure("outage") \/ UNCHANGED <<breaker, streak>>
    BY <1>6 DEF Outage
  <2>3. UNCHANGED <<hour, strikes, coolUntil, blackUntil, known, cursor>>
    BY <1>6 DEF Outage
  <2>4. ScanTypes' /\ Untripped'
    BY <1>e, <1>f, <2>2, <2>3 DEF ScanTypes
  <2> QED
    BY <1>g, <2>1, <2>3, <2>4
<1>7. ASSUME NEW f \in flights, Panic(f) PROVE ScanInv'
  <2>1. RequestTypes' /\ AsksOnce' /\ Asking' \subseteq Asking
    BY <1>a, <1>7, NextRequest DEF Panic
  <2>2. UNCHANGED <<hour, breaker, strikes, coolUntil, blackUntil, known, cursor, streak>>
    BY <1>7 DEF Panic
  <2>3. ScanTypes' /\ Untripped'
    BY <1>f, <2>2 DEF ScanTypes
  <2> QED
    BY <1>g, <2>1, <2>2, <2>3
<1>8. ASSUME EndScan PROVE ScanInv'
  <2>1. UNCHANGED <<hour, breaker, strikes, coolUntil, blackUntil, known, flights, streak>> /\ scan' = NoScan
    BY <1>8 DEF EndScan
  <2>2. scan.queue = <<>> /\ Out = {} /\ Out' = {} /\ scan'.queue = <<>>
    BY <1>8, <2>1 DEF EndScan, Out, NoScan
  <2>3. cursor' \in Int
    <3> DEFINE m == scan.base + Min({scan.asked, scan.span})
    <3>1. scan.base \in Int /\ scan.asked \in Int /\ scan.span \in Int /\ scan.span > 0
      BY <1>8 DEF EndScan, RequestTypes
    <3>2. m \in Int
      BY <3>1, LeastOfTwo
    <3>3. cursor' = m % scan.span
      BY <1>8 DEF EndScan
    <3> HIDE DEF m
    <3> QED
      BY <3>1, <3>2, <3>3
  <2>4. RequestTypes'
    BY <2>1 DEF RequestTypes, NoScan
  <2>5. AsksOnce'
    <3>1. Cardinality({}) = 0 /\ Parallel \in Nat
      BY FS_EmptySet, VenueAssumption
    <3> QED
      BY <2>1, <2>2, <3>1 DEF AsksOnce, Lists
  <2>6. Asking' = {}
    <3>1. Range(<<>>) = {}
      BY DEF Range
    <3>2. Asking' = {f[2] : f \in Out'} \cup Range(scan'.queue)
      BY DEF Asking, Out
    <3> QED
      BY <2>2, <3>1, <3>2
  <2>7. ScanTypes' /\ Untripped'
    BY <1>f, <2>1, <2>3 DEF ScanTypes
  <2> QED
    BY <2>1, <2>4, <2>5, <2>6, <2>7
<1>9. ASSUME ScanTick PROVE ScanInv'
  <2>1. UNCHANGED <<breaker, strikes, coolUntil, blackUntil, known, cursor, scan, flights, streak>> /\ hour' = hour + 1
    BY <1>9 DEF ScanTick
  <2>2. ScanTypes' /\ Untripped'
    BY <1>f, <2>1 DEF ScanTypes
  <2>3. RequestTypes' /\ AsksOnce' /\ Asking' = Asking
    BY <2>1 DEF RequestTypes, AsksOnce, Asking, Out
  <2>4. Asking \subseteq VenueSymbol
    <3>1. \A g \in Out : g[2] \in VenueSymbol
      BY <1>b DEF Out
    <3>2. Range(scan.queue) \subseteq VenueSymbol
      BY DEF AsksOnce, Lists, Range
    <3> QED
      BY <3>1, <3>2, AskedFor
  <2>5. \A s \in Asking' : ~Resting(s)'
    BY <1>c, <2>1, <2>3, <2>4 DEF Resting, ScanTypes
  <2> QED
    BY <2>1, <2>2, <2>3, <2>5
<1>10. ASSUME ScanRestart PROVE ScanInv'
  <2>1. /\ UNCHANGED <<hour, breaker, streak>> /\ scan' = NoScan /\ flights' = {} /\ known' = {} /\ cursor' = 0
        /\ strikes' = [s \in VenueSymbol |-> 0] /\ coolUntil' = [s \in VenueSymbol |-> 0]
        /\ blackUntil' = [s \in VenueSymbol |-> 0]
    BY <1>10 DEF ScanRestart
  <2>2. ScanTypes' /\ Untripped'
    BY <1>f, <2>1 DEF ScanTypes
  <2>3. RequestTypes'
    BY <2>1, FS_EmptySet DEF RequestTypes, NoScan
  <2>4. Out' = {} /\ scan'.queue = <<>>
    BY <2>1 DEF Out, NoScan
  <2>5. AsksOnce'
    <3>1. Cardinality({}) = 0 /\ Parallel \in Nat
      BY FS_EmptySet, VenueAssumption
    <3> QED
      BY <2>4, <3>1 DEF AsksOnce, Lists
  <2>6. Asking' = {}
    <3>1. Range(<<>>) = {}
      BY DEF Range
    <3>2. Asking' = {f[2] : f \in Out'} \cup Range(scan'.queue)
      BY DEF Asking, Out
    <3> QED
      BY <2>4, <3>1, <3>2
  <2> QED
    BY <2>1, <2>2, <2>3, <2>5, <2>6
<1>11. CASE UNCHANGED scanVars
  <2>1. UNCHANGED <<hour, breaker, strikes, coolUntil, blackUntil, known, cursor, scan, flights, streak>>
    BY <1>11 DEF scanVars
  <2>2. ScanTypes' /\ Untripped'
    BY <1>f, <2>1 DEF ScanTypes
  <2>3. RequestTypes' /\ AsksOnce' /\ Asking' = Asking
    BY <2>1 DEF RequestTypes, AsksOnce, Asking, Out
  <2> QED
    BY <1>g, <2>1, <2>2, <2>3
<1> QED
  BY <1>1, <1>2, <1>3, <1>4, <1>5, <1>6, <1>7, <1>8, <1>9, <1>10, <1>11 DEF ScanNext

(* The breaker of an exchange opens only after BreakerThreshold outages in a row,
   whatever requests race each other; a scan never asks for a symbol at rest nor has
   more than Parallel requests out, and a symbol known to answer has no strikes. *)
THEOREM ScanLawful == ScanSpec => []ScanIsLawful
<1>1. ScanInv => ScanIsLawful
  BY DEF ScanInv, AsksOnce, Untripped, Out, ScanIsLawful
<1> QED
  BY <1>1, ScanInitially, ScanStep, PTL DEF ScanSpec

(* ---------------------------------------------------------------------- *)
(* The edges together                                                     *)

(* Whatever part of the edges runs, what the bridge knows of the market it knows
   truly: the newest sample of a bucket stays in the lake, no frame looks ahead, only
   the build that filled the lake counts it as filled, the scan minds the breaker and
   the symbols at rest, and a skipped call does not pass for an empty answer. *)
THEOREM MarketSeen == EdgesSpec => []MarketIsSeenTruly
<1>1. EdgesInit => LakeInit /\ MetaInit /\ ScanInit /\ ApiInit
  BY DEF EdgesInit
<1>2. [EdgesNext]_edgeVars => /\ [LakeNext]_lakeVars /\ [MetaNext]_metaVars
                              /\ [ScanNext]_scanVars /\ [ApiNext]_apiVars
  BY DEF EdgesNext, edgeVars, botVars
<1>3. EdgesSpec => LakeSpec /\ MetaSpec /\ ScanSpec /\ ApiSpec
  BY <1>1, <1>2, PTL DEF EdgesSpec, LakeSpec, MetaSpec, ScanSpec, ApiSpec
<1>4. NewestKept /\ FramesDontLookAhead /\ FilledByThisBuild /\ ScanIsLawful /\ FallbackIsHonest
        /\ RestartsAreSpaced => MarketIsSeenTruly
  BY DEF MarketIsSeenTruly
<1> QED
  BY <1>3, <1>4, NewestStays, FramesLookBack, LakeFilled, ScanLawful, FallbackHonest,
     RestartsSpaced, PTL
================================================================================
