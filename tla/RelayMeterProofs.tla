--------------------------- MODULE RelayMeterProofs ---------------------------
(***************************************************************************)
(* Proofs about RelayMeter for every set of attempts, accounts and frames  *)
(* and every limit: the relay's atomics are a pool of slots (IsSlotPool),  *)
(* no slot leaks (SlotsRight), and every forwarded frame is counted once,  *)
(* for its own account (BytesRight).                                       *)
(***************************************************************************)
EXTENDS RelayMeter, FiniteSetTheorems, TLAPS

(* The handlers between fetch_add and fetch_sub on total_active, and those  *)
(* between fetch_add and fetch_sub on an account's count.                   *)
Admitted == {"counted", "entered", "over", "granted", "open", "leaving", "returned"}
Counting == Admitted \cup {"full"}
Holding == {"entered", "over", "granted", "open", "leaving"}
Inside == {"granted", "open", "leaving"}

At(S) == {c \in Conn : pc[c] \in S}
HeldBy(o) == {c \in Conn : obj[c] = o}

(* Each counter is the number of handlers that have added to it and have   *)
(* not subtracted yet.                                                     *)
Counts ==
  /\ total = Cardinality(At(Counting))
  /\ \A o \in Conn : active[o] = Cardinality(HeldBy(o))

(* A handler that counts in an account holds the entry the map has for it: *)
(* no entry is evicted under its holders.                                  *)
Holders ==
  /\ \A c \in Conn : obj[c] # None <=> pc[c] \in Holding
  /\ \A c \in Conn : obj[c] # None => entry[AccountOf[c]] = obj[c]
  /\ \A a \in Account : entry[a] # None => AccountOf[entry[a]] = a

(* While retain looks at an entry under the map's lock, what it has already *)
(* seen to be zero stays zero.                                              *)
Looking ==
  rep.at # None =>
    /\ entry[rep.at] # None
    /\ rep.phase \in {"swapping", "retaining"}
    /\ rep.phase = "retaining" =>
         /\ rep.load \in 1..3
         /\ rep.load \in {2, 3} => active[entry[rep.at]] = 0
         /\ rep.load = 3 => owed[entry[rep.at]]["up"] = {}

(* What is on the way to the control plane is by account. *)
WireType == \A r \in wire : DOMAIN r \subseteq Account /\ \A a \in DOMAIN r : r[a] \subseteq Frame

(* Those who have been let in, or will be. *)
Winner(c) == pc[c] \in Inside \/ (pc[c] = "entered" /\ WithinLimit(c))
WinnersOf(o) == {c \in HeldBy(o) : Winner(c)}

Limits ==
  /\ Cardinality(At(Admitted)) <= MaxTotal
  /\ \A o \in Conn : Cardinality(WinnersOf(o)) <= MaxPerAccount

(* Whoever the limit refused, or will, has another in front. *)
Won(w) == Winner(w) \/ pc[w] \in {"returned", "done"}
Lost(c) == pc[c] = "over" \/ (pc[c] = "entered" /\ ~WithinLimit(c))

BehindAnother ==
  \A c \in Conn : Lost(c) => \E w \in Conn : AccountOf[w] = AccountOf[c] /\ Won(w)

SlotInv == TypeOK /\ WireType /\ Counts /\ Holders /\ Looking

-------------------------------------------------------------------------------
(* Counting. *)

LEMMA ConnSubset ==
  ASSUME NEW S \in SUBSET Conn
  PROVE  IsFiniteSet(S) /\ Cardinality(S) \in Nat
BY MeterAssumption, FS_Subset, FS_CardinalityType

LEMMA OneMore ==
  ASSUME NEW S \in SUBSET Conn, NEW x \in Conn \ S
  PROVE  Cardinality(S \cup {x}) = Cardinality(S) + 1
BY ConnSubset, FS_AddElement

LEMMA OneLess ==
  ASSUME NEW S \in SUBSET Conn, NEW x \in S
  PROVE  Cardinality(S \ {x}) = Cardinality(S) - 1 /\ Cardinality(S) \in Nat \ {0}
<1>1. IsFiniteSet(S) /\ Cardinality(S) \in Nat
  BY ConnSubset
<1>2. Cardinality(S) # 0
  BY <1>1, FS_EmptySet
<1> QED
  BY <1>1, <1>2, FS_RemoveElement

LEMMA NotMore ==
  ASSUME NEW S \in SUBSET Conn, NEW T \in SUBSET S
  PROVE  /\ Cardinality(T) <= Cardinality(S)
         /\ Cardinality(T) \in Nat /\ Cardinality(S) \in Nat
BY ConnSubset, FS_Subset

LEMMA NoneLeft ==
  ASSUME NEW S \in SUBSET Conn
  PROVE  Cardinality(S) = 0 <=> S = {}
BY ConnSubset, FS_EmptySet

-------------------------------------------------------------------------------
(* The steps that change the counters or the map. *)
LEMMA SlotSteps ==
  ASSUME [Next]_vars
  PROVE  \/ \E c \in Conn : \/ CountTotal(c) \/ Enter(c) \/ Decide(c) \/ LeaveAccount(c)
                            \/ LeaveTotal(c) \/ Opened(c) \/ NotOpened(c) \/ Closed(c)
         \/ \E a \in Account : Evict(a)
         \/ Restart
         \/ UNCHANGED slots
<1> USE DEF slots
<1>1. CASE \E c \in Conn : Handler(c)
  BY <1>1 DEF Handler, Forward
<1>2. CASE Reporter
  BY <1>2 DEF Reporter, Flush, SwapUp, SwapDown, Look, Keep, LookOn, StartRetain,
              StartPosting, PostUsage, EndFlush, StartFlush
<1>3. CASE \E r \in wire : Deliver(r) \/ Lose(r)
  BY <1>3 DEF Deliver, Lose
<1> QED
  BY <1>1, <1>2, <1>3 DEF Next, vars

(* A handler that has not decided yet is where its entry says. *)
LEMMA EntryType ==
  ASSUME TypeOK, NEW c \in Conn
  PROVE  TheEntry(c) \in Conn
BY MeterAssumption DEF TypeOK, TheEntry

LEMMA CountsInductive ==
  ASSUME SlotInv, [Next]_vars
  PROVE  Counts'
<1> USE DEF SlotInv
<1>1. ASSUME NEW c \in Conn, CountTotal(c)
      PROVE  Counts'
  <2>1. c \notin At(Counting) /\ At(Counting) \in SUBSET Conn
    BY <1>1 DEF CountTotal, At, Counting, Admitted
  <2>2. At(Counting)' = At(Counting) \cup {c}
    BY <1>1 DEF At, TypeOK, CountTotal, Counting, Admitted
  <2>3. total' = Cardinality(At(Counting)')
    BY <1>1, <2>1, <2>2, OneMore DEF CountTotal, Counts
  <2> QED
    BY <1>1, <2>3 DEF CountTotal, Counts, HeldBy
<1>2. ASSUME NEW c \in Conn, Enter(c)
      PROVE  Counts'
  <2> DEFINE o == TheEntry(c)
  <2>1. o \in Conn
    BY EntryType
  <2>2. obj' = [obj EXCEPT ![c] = o] /\ active' = [active EXCEPT ![o] = @ + 1]
    BY <1>2 DEF Enter
  <2>3. At(Counting)' = At(Counting)
    <3>1. c \in At(Counting)
      BY <1>2 DEF Enter, At, Counting, Admitted
    <3> QED
      BY <1>2, <3>1 DEF At, TypeOK, Enter, Counting, Admitted
  <2>4. obj[c] = None
    BY <1>2 DEF Enter, Holders, Holding
  <2> HIDE DEF o
  <2>5. ASSUME NEW p \in Conn
        PROVE  active'[p] = Cardinality(HeldBy(p)')
    <3>1. HeldBy(p) \in SUBSET Conn /\ c \notin HeldBy(p)
      BY <2>4, MeterAssumption DEF HeldBy
    <3>2. CASE p = o
      <4>1. HeldBy(p)' = HeldBy(p) \cup {c}
        BY <2>1, <2>2, <3>2 DEF HeldBy, TypeOK
      <4> QED
        BY <3>1, <3>2, <4>1, <2>1, <2>2, OneMore DEF Counts, TypeOK
    <3>3. CASE p # o
      <4>1. HeldBy(p)' = HeldBy(p)
        BY <2>2, <2>4, <3>3, MeterAssumption DEF HeldBy, TypeOK
      <4> QED
        BY <3>3, <4>1, <2>2 DEF Counts, TypeOK
    <3> QED
      BY <3>2, <3>3
  <2>6. total' = total
    BY <1>2 DEF Enter
  <2> QED
    BY <2>3, <2>5, <2>6 DEF Counts
<1>3. ASSUME NEW c \in Conn, LeaveAccount(c)
      PROVE  Counts'
  <2>1. At(Counting)' = At(Counting)
    <3>1. c \in At(Counting)
      BY <1>3 DEF LeaveAccount, At, Counting, Admitted
    <3> QED
      BY <1>3, <3>1 DEF At, TypeOK, LeaveAccount, Counting, Admitted
  <2>2. obj[c] \in Conn
    BY <1>3 DEF LeaveAccount, Holders, Holding, TypeOK
  <2>3. ASSUME NEW p \in Conn
        PROVE  active'[p] = Cardinality(HeldBy(p)')
    <3>1. HeldBy(p) \in SUBSET Conn
      BY DEF HeldBy
    <3>2. CASE p = obj[c]
      <4>1. HeldBy(p)' = HeldBy(p) \ {c} /\ c \in HeldBy(p)
        BY <1>3, <2>2, <3>2, MeterAssumption DEF HeldBy, TypeOK, LeaveAccount
      <4>2. Cardinality(HeldBy(p)') = Cardinality(HeldBy(p)) - 1
        BY <3>1, <4>1, OneLess
      <4> QED
        BY <1>3, <3>2, <4>2 DEF Counts, TypeOK, LeaveAccount
    <3>3. CASE p # obj[c]
      <4>1. HeldBy(p)' = HeldBy(p)
        BY <1>3, <3>3, MeterAssumption DEF HeldBy, TypeOK, LeaveAccount
      <4> QED
        BY <1>3, <3>3, <4>1 DEF Counts, TypeOK, LeaveAccount
    <3> QED
      BY <3>2, <3>3
  <2>4. total' = total
    BY <1>3 DEF LeaveAccount
  <2> QED
    BY <2>1, <2>3, <2>4 DEF Counts
<1>4. ASSUME NEW c \in Conn, LeaveTotal(c)
      PROVE  Counts'
  <2>1. c \in At(Counting) /\ At(Counting) \in SUBSET Conn
    BY <1>4 DEF LeaveTotal, At, Counting, Admitted
  <2>2. At(Counting)' = At(Counting) \ {c}
    BY <1>4 DEF At, TypeOK, LeaveTotal, Counting, Admitted
  <2>3. total' = Cardinality(At(Counting)')
    BY <1>4, <2>1, <2>2, OneLess DEF LeaveTotal, Counts
  <2> QED
    BY <1>4, <2>3 DEF LeaveTotal, Counts, HeldBy
<1>5. ASSUME NEW c \in Conn, Decide(c) \/ Opened(c) \/ NotOpened(c) \/ Closed(c)
      PROVE  Counts'
  <2>1. c \in At(Counting)
    BY <1>5 DEF Decide, Opened, NotOpened, Closed, At, Counting, Admitted
  <2>2. PICK v \in Counting : pc' = [pc EXCEPT ![c] = v]
    BY <1>5 DEF Decide, Opened, NotOpened, Closed, Counting, Admitted
  <2>3. At(Counting)' = At(Counting)
    BY <2>1, <2>2 DEF At, TypeOK
  <2> QED
    BY <1>5, <2>3 DEF Decide, Opened, NotOpened, Closed, Counts, HeldBy
<1>6. CASE \E a \in Account : Evict(a)
  BY <1>6 DEF Evict, Counts, At, HeldBy
<1>7. CASE Restart
  <2>1. At(Counting)' = {}
    BY <1>7 DEF Restart, At, Counting, Admitted
  <2>2. \A o \in Conn : HeldBy(o)' = {}
    BY <1>7, MeterAssumption DEF Restart, HeldBy
  <2> QED
    BY <1>7, <2>1, <2>2, FS_EmptySet DEF Restart, Counts
<1>8. CASE UNCHANGED slots
  BY <1>8 DEF slots, Counts, At, HeldBy
<1> QED
  BY SlotSteps, <1>1, <1>2, <1>3, <1>4, <1>5, <1>6, <1>7, <1>8

-------------------------------------------------------------------------------
(* Types. *)

LEMMA SlotTypes ==
  ASSUME SlotInv, [Next]_vars
  PROVE  /\ pc' \in [Conn -> {"idle", "full", "counted", "entered", "over", "granted", "open",
                              "leaving", "returned", "refused", "done"}]
         /\ obj' \in [Conn -> Conn \cup {None}]
         /\ slot' \in [Conn -> Nat]
         /\ total' \in Nat
         /\ entry' \in [Account -> Conn \cup {None}]
         /\ active' \in [Conn -> Nat]
<1> USE DEF SlotInv
<1>1. total' \in Nat /\ \A o \in Conn : active'[o] \in Nat
  <2>1. At(Counting)' \in SUBSET Conn /\ \A o \in Conn : HeldBy(o)' \in SUBSET Conn
    BY DEF At, HeldBy
  <2>2. Cardinality(At(Counting)') \in Nat /\ \A o \in Conn : Cardinality(HeldBy(o)') \in Nat
    BY <2>1, ConnSubset
  <2> QED
    BY <2>2, CountsInductive DEF Counts
<1>2. ASSUME NEW c \in Conn, CountTotal(c) \/ LeaveAccount(c) \/ LeaveTotal(c) \/ Opened(c)
                             \/ NotOpened(c) \/ Closed(c) \/ Decide(c)
      PROVE  /\ pc' \in [Conn -> {"idle", "full", "counted", "entered", "over", "granted",
                                  "open", "leaving", "returned", "refused", "done"}]
             /\ obj' \in [Conn -> Conn \cup {None}]
             /\ slot' \in [Conn -> Nat]
             /\ entry' = entry
             /\ active' = [p \in Conn |-> active'[p]]
  <2>1. CASE CountTotal(c) \/ LeaveTotal(c)
    BY <2>1 DEF CountTotal, LeaveTotal, TypeOK
  <2>2. CASE LeaveAccount(c)
    BY <2>2 DEF LeaveAccount, TypeOK
  <2>3. CASE Decide(c)
    BY <2>3 DEF Decide, TypeOK
  <2>4. CASE Opened(c) \/ NotOpened(c) \/ Closed(c)
    BY <2>4 DEF Opened, NotOpened, Closed, TypeOK
  <2> QED
    BY <1>2, <2>1, <2>2, <2>3, <2>4
<1>3. ASSUME NEW c \in Conn, Enter(c)
      PROVE  /\ pc' \in [Conn -> {"idle", "full", "counted", "entered", "over", "granted",
                                  "open", "leaving", "returned", "refused", "done"}]
             /\ obj' \in [Conn -> Conn \cup {None}]
             /\ slot' \in [Conn -> Nat]
             /\ entry' \in [Account -> Conn \cup {None}]
             /\ active' = [p \in Conn |-> active'[p]]
  <2>1. TheEntry(c) \in Conn /\ AccountOf[c] \in Account
    BY EntryType, MeterAssumption
  <2>2. active[TheEntry(c)] + 1 \in Nat
    BY <2>1 DEF TypeOK
  <2> QED
    BY <1>3, <2>1, <2>2 DEF Enter, TypeOK
<1>4. CASE \E a \in Account : Evict(a)
  BY <1>4 DEF Evict, TypeOK
<1>5. CASE Restart
  BY <1>5 DEF Restart, TypeOK
<1>6. CASE UNCHANGED slots
  BY <1>6 DEF slots, TypeOK
<1>7. CASE \E c \in Conn : \/ CountTotal(c) \/ LeaveAccount(c) \/ LeaveTotal(c) \/ Opened(c)
                           \/ NotOpened(c) \/ Closed(c) \/ Decide(c)
  BY <1>1, <1>2, <1>7 DEF TypeOK
<1>8. CASE \E c \in Conn : Enter(c)
  BY <1>1, <1>3, <1>8 DEF TypeOK
<1> QED
  BY SlotSteps, <1>4, <1>5, <1>6, <1>7, <1>8

(* The steps that move bytes or the reporter. *)
LEMMA ByteSteps ==
  ASSUME [Next]_vars
  PROVE  \/ \E c \in Conn, d \in Dir, f \in Frame : Forward(c, d, f)
         \/ \E a \in Account : \/ SwapUp(a) \/ SwapDown(a) \/ Look(a) \/ Keep(a) \/ LookOn(a)
                               \/ Evict(a)
         \/ StartRetain \/ StartPosting \/ PostUsage \/ EndFlush
         \/ \E last \in BOOLEAN : StartFlush(last)
         \/ \E r \in wire : Deliver(r) \/ Lose(r)
         \/ Restart
         \/ UNCHANGED <<meter, rep, wire, gone>>
<1>1. CASE \E c \in Conn : Handler(c)
  BY <1>1 DEF Handler, CountTotal, Enter, Decide, LeaveAccount, LeaveTotal, Opened, NotOpened,
              Closed, meter
<1>2. CASE UNCHANGED vars
  BY <1>2 DEF vars
<1> QED
  BY <1>1, <1>2 DEF Next, Reporter, Flush

LEMMA MeterTypes ==
  ASSUME SlotInv, [Next]_vars
  PROVE  /\ owed' \in [Conn -> [Dir -> SUBSET Frame]]
         /\ batch' \in [Account -> SUBSET Frame]
         /\ ledger' \in [Account -> [Frame -> Nat]]
         /\ by' \in [Frame -> Conn \cup {None}]
<1> USE DEF SlotInv
<1>1. ASSUME NEW c \in Conn, NEW d \in Dir, NEW f \in Frame, Forward(c, d, f)
      PROVE  /\ owed' \in [Conn -> [Dir -> SUBSET Frame]] /\ UNCHANGED <<batch, ledger>>
             /\ by' \in [Frame -> Conn \cup {None}]
  <2>1. obj[c] \in Conn
    BY <1>1 DEF Forward, Holders, Holding, TypeOK
  <2> QED
    BY <1>1, <2>1 DEF Forward, TypeOK
<1>2. ASSUME NEW a \in Account, SwapUp(a) \/ SwapDown(a)
      PROVE  /\ owed' \in [Conn -> [Dir -> SUBSET Frame]] /\ UNCHANGED <<ledger, by>>
             /\ batch' \in [Account -> SUBSET Frame]
  <2>1. entry[a] \in Conn
    BY <1>2, MeterAssumption DEF SwapUp, SwapDown, Held, Looking, TypeOK
  <2>2. owed[entry[a]] \in [Dir -> SUBSET Frame] /\ "up" \in Dir /\ "down" \in Dir
    BY <2>1 DEF TypeOK, Dir
  <2>3. owed[entry[a]]["up"] \subseteq Frame /\ owed[entry[a]]["down"] \subseteq Frame
    BY <2>2
  <2>4. batch' \in [Account -> SUBSET Frame]
    BY <1>2, <2>3 DEF SwapUp, SwapDown, TypeOK
  <2>5. owed' \in [Conn -> [Dir -> SUBSET Frame]]
    <3>1. PICK d \in Dir : owed' = Taken(a, d)
      BY <1>2, <2>2 DEF SwapUp, SwapDown
    <3> QED
      BY <2>1, <3>1 DEF Taken, TypeOK
  <2> QED
    BY <1>2, <2>4, <2>5 DEF SwapUp, SwapDown
<1>3. ASSUME PostUsage
      PROVE  /\ UNCHANGED <<owed, ledger, by>> /\ batch' \in [Account -> SUBSET Frame]
  BY <1>3 DEF PostUsage, AfterPost, TypeOK
<1>4. ASSUME NEW r \in wire, Deliver(r)
      PROVE  UNCHANGED <<owed, batch, by>> /\ ledger' \in [Account -> [Frame -> Nat]]
  BY <1>4 DEF Deliver, Book, TypeOK
<1>5. ASSUME Restart
      PROVE  /\ owed' \in [Conn -> [Dir -> SUBSET Frame]] /\ UNCHANGED <<ledger, by>>
             /\ batch' \in [Account -> SUBSET Frame]
  BY <1>5 DEF Restart
<1>6. \/ \E c \in Conn, d \in Dir, f \in Frame : Forward(c, d, f)
      \/ \E a \in Account : SwapUp(a) \/ SwapDown(a)
      \/ PostUsage
      \/ \E r \in wire : Deliver(r)
      \/ Restart
      \/ UNCHANGED meter
  <2>1. CASE \E a \in Account : Look(a) \/ Keep(a) \/ LookOn(a) \/ Evict(a)
    BY <2>1 DEF Look, Keep, LookOn, Evict
  <2>2. CASE StartRetain \/ StartPosting \/ EndFlush \/ \E last \in BOOLEAN : StartFlush(last)
    BY <2>2 DEF StartRetain, StartPosting, EndFlush, StartFlush
  <2>3. CASE \E r \in wire : Lose(r)
    BY <2>3 DEF Lose
  <2> QED
    BY ByteSteps, <2>1, <2>2, <2>3
<1>7. CASE UNCHANGED meter
  BY <1>7 DEF meter, TypeOK
<1> QED
  BY <1>1, <1>2, <1>3, <1>4, <1>5, <1>6, <1>7 DEF TypeOK

LEMMA ReporterTypes ==
  ASSUME SlotInv, [Next]_vars
  PROVE  /\ rep' \in [phase : Phase, last : BOOLEAN, todo : SUBSET Account,
                      seen : SUBSET Account, at : Account \cup {None}, load : 0..3]
         /\ gone' \subseteq Frame
         /\ WireType'
<1> USE DEF SlotInv
<1> DEFINE R == [phase : Phase, last : BOOLEAN, todo : SUBSET Account,
                 seen : SUBSET Account, at : Account \cup {None}, load : 0..3]
<1>r. rep \in R /\ AtRest \in R
  BY DEF TypeOK, AtRest, Phase
<1>h. Held \subseteq Account
  BY DEF Held
<1>1. ASSUME NEW a \in Account, Look(a) \/ Keep(a) \/ LookOn(a) \/ Evict(a)
      PROVE  rep' \in R /\ UNCHANGED <<wire, gone>>
  <2>n. 0 \in 0..3 /\ 1 \in 0..3
    OBVIOUS
  <2>1. CASE Look(a)
    BY <2>1, <2>n, <1>r DEF Look
  <2>2. CASE Keep(a)
    BY <2>2, <2>n, <1>r DEF Keep
  <2>4. CASE Evict(a)
    BY <2>4, <2>n, <1>r DEF Evict
  <2>3. CASE LookOn(a)
    <3>1. rep.load + 1 \in 0..3
      BY <2>3, <1>r DEF LookOn
    <3> QED
      BY <2>3, <3>1, <1>r DEF LookOn
  <2> QED
    BY <1>1, <2>1, <2>2, <2>3, <2>4
<1>2. ASSUME NEW a \in Account, SwapUp(a) \/ SwapDown(a)
      PROVE  rep' \in R /\ UNCHANGED <<wire, gone>>
  <2>1. CASE SwapUp(a)
    BY <2>1, <1>r DEF SwapUp
  <2>2. CASE SwapDown(a)
    BY <2>2, <1>r DEF SwapDown
  <2> QED
    BY <1>2, <2>1, <2>2
<1>3. ASSUME StartRetain \/ StartPosting
      PROVE  rep' \in R /\ UNCHANGED <<wire, gone>>
  BY <1>3, <1>r, <1>h DEF StartRetain, StartPosting, Phase
<1>4. ASSUME EndFlush \/ \E last \in BOOLEAN : StartFlush(last)
      PROVE  rep' \in R /\ UNCHANGED <<wire, gone>>
  BY <1>4, <1>r, <1>h DEF EndFlush, StartFlush, Phase
<1>5. ASSUME PostUsage
      PROVE  rep' \in R /\ gone' \subseteq Frame /\ WireType'
  <2>1. PICK chunk \in SUBSET Owing : wire' = wire \cup {[a \in chunk |-> batch[a]]}
    BY <1>5 DEF PostUsage
  <2>2. chunk \subseteq Account /\ \A a \in chunk : batch[a] \subseteq Frame
    BY DEF Owing, TypeOK
  <2> QED
    BY <1>5, <1>r, <2>1, <2>2 DEF PostUsage, WireType, TypeOK
<1>6. ASSUME NEW r \in wire, Deliver(r) \/ Lose(r)
      PROVE  rep' \in R /\ gone' \subseteq Frame /\ WireType'
  <2>1. DOMAIN r \subseteq Account /\ \A a \in DOMAIN r : r[a] \subseteq Frame
    BY DEF WireType
  <2>2. UNION {r[a] : a \in DOMAIN r} \subseteq Frame
    BY <2>1
  <2>3. UNION {r[a] : a \in DOMAIN r \ Booked} \subseteq Frame
    BY <2>1
  <2>4. gone' \subseteq Frame
    BY <1>6, <2>2, <2>3 DEF Deliver, Lose, Book, Carried, TypeOK
  <2>5. wire' = wire \ {r} /\ rep' = rep
    BY <1>6 DEF Deliver, Lose
  <2> QED
    BY <1>r, <2>4, <2>5 DEF WireType
<1>7. ASSUME Restart
      PROVE  rep' \in R /\ gone' \subseteq Frame /\ WireType'
  <2>1. Unreported \subseteq Frame
    <3>1. \A c \in Conn, d \in Dir : owed[c][d] \subseteq Frame
      BY DEF TypeOK
    <3>2. \A a \in Account : batch[a] \subseteq Frame
      BY DEF TypeOK
    <3> DEFINE A == UNION {owed[c][d] : c \in Conn, d \in Dir}
               B == UNION {batch[a] : a \in Account}
    <3>3. A \subseteq Frame
      <4> SUFFICES ASSUME NEW f \in A PROVE f \in Frame
        OBVIOUS
      <4>1. PICK c \in Conn, d \in Dir : f \in owed[c][d]
        OBVIOUS
      <4> QED
        BY <3>1, <4>1
    <3>4. B \subseteq Frame
      BY <3>2
    <3>5. Unreported = A \cup B
      BY DEF Unreported
    <3> HIDE DEF A, B
    <3> QED
      BY <3>3, <3>4, <3>5
  <2> QED
    BY <1>7, <1>r, <2>1 DEF Restart, WireType, TypeOK
<1>8. CASE UNCHANGED <<wire, gone>> /\ rep' \in R
  BY <1>8 DEF WireType, TypeOK
<1>9. CASE \E c \in Conn, d \in Dir, f \in Frame : Forward(c, d, f)
  BY <1>8, <1>9, <1>r DEF Forward
<1> QED
  BY ByteSteps, <1>r, <1>1, <1>2, <1>3, <1>4, <1>5, <1>6, <1>7, <1>8, <1>9

LEMMA TypesInductive ==
  ASSUME SlotInv, [Next]_vars
  PROVE  TypeOK' /\ WireType'
BY SlotTypes, MeterTypes, ReporterTypes DEF TypeOK, WireType

-------------------------------------------------------------------------------
(* Entries and their holders. *)

LEMMA HeldIsCounted ==
  ASSUME SlotInv, NEW c \in Conn, obj[c] # None
  PROVE  obj[c] \in Conn /\ active[obj[c]] # 0
<1>1. obj[c] \in Conn
  BY DEF SlotInv, TypeOK
<1>2. HeldBy(obj[c]) \in SUBSET Conn /\ HeldBy(obj[c]) # {}
  BY <1>1 DEF HeldBy
<1> QED
  BY <1>1, <1>2, NoneLeft DEF SlotInv, Counts

(* An entry is only evicted when nobody holds it: its count was loaded as  *)
(* zero under the lock that every acquire has to take.                     *)
LEMMA EvictsUnheld ==
  ASSUME SlotInv, NEW a \in Account, Evict(a)
  PROVE  /\ active[entry[a]] = 0
         /\ owed[entry[a]]["up"] = {} /\ owed[entry[a]]["down"] = {}
         /\ \A c \in Conn : AccountOf[c] = a => obj[c] = None
<1>1. /\ active[entry[a]] = 0 /\ owed[entry[a]]["up"] = {}
      /\ entry[a] \in Conn
  BY MeterAssumption DEF SlotInv, Evict, Looking, TypeOK
<1>2. owed[entry[a]]["down"] = {}
  BY DEF Evict, NonZero, LoadOrder
<1>3. ASSUME NEW c \in Conn, AccountOf[c] = a, obj[c] # None
      PROVE  FALSE
  BY <1>1, <1>3, HeldIsCounted DEF SlotInv, Holders
<1> QED
  BY <1>1, <1>2, <1>3

LEMMA HoldersInductive ==
  ASSUME SlotInv, [Next]_vars
  PROVE  Holders'
<1> USE MeterAssumption DEF SlotInv
<1>1. ASSUME NEW c \in Conn, CountTotal(c) \/ Decide(c) \/ LeaveTotal(c) \/ Opened(c)
                             \/ NotOpened(c) \/ Closed(c)
      PROVE  Holders'
  <2>1. /\ UNCHANGED <<obj, entry>>
        /\ \E v \in {"full", "counted", "granted", "over", "refused", "done", "open", "leaving"} :
             pc' = [pc EXCEPT ![c] = v] /\ (v \in Holding <=> pc[c] \in Holding)
    BY <1>1 DEF CountTotal, Decide, LeaveTotal, Opened, NotOpened, Closed, Holding
  <2> QED
    BY <2>1 DEF Holders, TypeOK
<1>2. ASSUME NEW c \in Conn, Enter(c)
      PROVE  Holders'
  <2> DEFINE o == TheEntry(c)
  <2>1. o \in Conn /\ AccountOf[c] \in Account
    BY EntryType
  <2>2. /\ obj' = [obj EXCEPT ![c] = o] /\ entry' = [entry EXCEPT ![AccountOf[c]] = o]
        /\ pc' = [pc EXCEPT ![c] = "entered"] /\ pc[c] = "counted"
    BY <1>2 DEF Enter
  <2>3. AccountOf[o] = AccountOf[c]
    BY <2>1 DEF TheEntry, Holders
  <2>4. \A x \in Conn : obj[x] # None /\ AccountOf[x] = AccountOf[c] => obj[x] = o
    BY <2>1 DEF TheEntry, Holders
  <2> HIDE DEF o
  <2>5. \A x \in Conn : obj'[x] # None <=> pc'[x] \in Holding
    BY <2>1, <2>2 DEF Holders, Holding, TypeOK
  <2>6. \A x \in Conn : obj'[x] # None => entry'[AccountOf[x]] = obj'[x]
    BY <2>1, <2>2, <2>4 DEF Holders, TypeOK
  <2>7. \A a \in Account : entry'[a] # None => AccountOf[entry'[a]] = a
    BY <2>1, <2>2, <2>3 DEF Holders, TypeOK
  <2> QED
    BY <2>5, <2>6, <2>7 DEF Holders
<1>3. ASSUME NEW c \in Conn, LeaveAccount(c)
      PROVE  Holders'
  <2>1. /\ obj' = [obj EXCEPT ![c] = None] /\ entry' = entry
        /\ \E v \in {"full", "returned"} : pc' = [pc EXCEPT ![c] = v]
    BY <1>3 DEF LeaveAccount
  <2> QED
    BY <2>1 DEF Holders, Holding, TypeOK
<1>4. ASSUME NEW a \in Account, Evict(a)
      PROVE  Holders'
  <2>1. UNCHANGED <<pc, obj>> /\ entry' = [entry EXCEPT ![a] = None]
    BY <1>4 DEF Evict
  <2>2. \A c \in Conn : AccountOf[c] = a => obj[c] = None
    BY <1>4, EvictsUnheld
  <2> QED
    BY <2>1, <2>2 DEF Holders, TypeOK
<1>5. CASE Restart
  BY <1>5 DEF Restart, Holders, Holding
<1>6. CASE UNCHANGED slots
  BY <1>6 DEF slots, Holders
<1> QED
  BY SlotSteps, <1>1, <1>2, <1>3, <1>4, <1>5, <1>6

LEMMA LookingInductive ==
  ASSUME SlotInv, [Next]_vars
  PROVE  Looking'
<1> USE MeterAssumption DEF SlotInv
<1>r. rep \in [phase : Phase, last : BOOLEAN, todo : SUBSET Account, seen : SUBSET Account,
               at : Account \cup {None}, load : 0..3]
  BY DEF TypeOK
<1>n. AtRest.at = None
  BY DEF AtRest
<1>1. ASSUME NEW c \in Conn, Enter(c)
      PROVE  Looking'
  <2>1. AccountOf[c] \in Account /\ TheEntry(c) \in Conn
    BY EntryType
  <2>2. /\ UNCHANGED <<rep, owed>> /\ rep.at # AccountOf[c]
        /\ entry' = [entry EXCEPT ![AccountOf[c]] = TheEntry(c)]
        /\ active' = [active EXCEPT ![TheEntry(c)] = @ + 1]
    BY <1>1 DEF Enter, meter
  <2>3. ASSUME rep.at # None
        PROVE  /\ entry'[rep.at] = entry[rep.at] /\ entry[rep.at] \in Conn
               /\ TheEntry(c) # entry[rep.at]
    <3>1. rep.at \in Account /\ entry[rep.at] # None
      BY <2>3, <1>r DEF Looking
    <3>2. AccountOf[entry[rep.at]] = rep.at
      BY <3>1 DEF Holders
    <3>3. AccountOf[TheEntry(c)] = AccountOf[c]
      BY <2>1 DEF TheEntry, Holders
    <3> QED
      BY <3>1, <3>2, <3>3, <2>1, <2>2 DEF TypeOK
  <2> QED
    BY <2>1, <2>2, <2>3 DEF Looking, TypeOK
<1>2. ASSUME NEW c \in Conn, LeaveAccount(c)
      PROVE  Looking'
  <2>1. obj[c] \in Conn /\ active[obj[c]] # 0
    BY <1>2, HeldIsCounted DEF LeaveAccount, Holders, Holding
  <2>2. UNCHANGED <<rep, owed, entry>> /\ active' = [active EXCEPT ![obj[c]] = @ - 1]
    BY <1>2 DEF LeaveAccount, meter
  <2> QED
    BY <2>1, <2>2 DEF Looking, TypeOK
<1>3. ASSUME NEW c \in Conn, CountTotal(c) \/ Decide(c) \/ LeaveTotal(c) \/ Opened(c)
                             \/ NotOpened(c) \/ Closed(c)
      PROVE  Looking'
  <2>1. UNCHANGED <<rep, owed, entry, active>>
    BY <1>3 DEF CountTotal, Decide, LeaveTotal, Opened, NotOpened, Closed, meter
  <2> QED
    BY <2>1 DEF Looking
<1>4. ASSUME NEW c \in Conn, NEW d \in Dir, NEW f \in Frame, Forward(c, d, f)
      PROVE  Looking'
  <2>1. obj[c] \in Conn /\ active[obj[c]] # 0
    BY <1>4, HeldIsCounted DEF Forward, Holders, Holding
  <2>2. /\ UNCHANGED <<rep, entry, active>>
        /\ owed' = [owed EXCEPT ![obj[c]][d] = @ \cup {f}]
    BY <1>4 DEF Forward, slots
  <2>3. \A o \in Conn : o # obj[c] => owed'[o] = owed[o]
    BY <2>1, <2>2 DEF TypeOK
  <2>4. rep.at # None => entry[rep.at] \in Conn
    BY <1>r DEF Looking, TypeOK
  <2> QED
    BY <2>1, <2>2, <2>3, <2>4 DEF Looking
<1>5. ASSUME NEW a \in Account, SwapUp(a)
      PROVE  Looking'
  BY <1>5, <1>r DEF SwapUp, Looking, Held, slots
<1>6. ASSUME NEW a \in Account, SwapDown(a) \/ Keep(a) \/ Evict(a)
      PROVE  Looking'
  <2>1. rep'.at = None
    BY <1>6, <1>r DEF SwapDown, Keep, Evict
  <2> QED
    BY <2>1 DEF Looking
<1>7. ASSUME NEW a \in Account, Look(a)
      PROVE  Looking'
  <2>1. rep'.at = a /\ rep'.load = 1 /\ rep'.phase = "retaining" /\ entry' = entry
    BY <1>7, <1>r DEF Look, slots
  <2>2. entry[a] # None
    BY <1>7 DEF Look, Held
  <2> QED
    BY <2>1, <2>2 DEF Looking
<1>8. ASSUME NEW a \in Account, LookOn(a)
      PROVE  Looking'
  <2>1. /\ rep'.at = a /\ rep'.load = rep.load + 1 /\ rep'.phase = "retaining" /\ rep.at = a
        /\ rep.phase = "retaining" /\ rep.load < 3
        /\ UNCHANGED <<entry, active, owed>>
    BY <1>8, <1>r DEF LookOn, slots, meter
  <2>2. rep.load \in {1, 2} /\ entry[a] # None /\ (rep.load = 2 => active[entry[a]] = 0)
    BY <2>1 DEF Looking
  <2>3. CASE rep.load = 1
    <3>1. active[entry[a]] = 0
      BY <1>8, <2>3 DEF LookOn, NonZero, LoadOrder
    <3> QED
      BY <2>1, <2>2, <2>3, <3>1 DEF Looking
  <2>4. CASE rep.load = 2
    <3>1. owed[entry[a]]["up"] = {}
      BY <1>8, <2>4 DEF LookOn, NonZero, LoadOrder
    <3> QED
      BY <2>1, <2>2, <2>4, <3>1 DEF Looking
  <2> QED
    BY <2>2, <2>3, <2>4
<1>9. ASSUME StartRetain \/ StartPosting \/ EndFlush \/ \E last \in BOOLEAN : StartFlush(last)
      PROVE  Looking'
  <2>1. rep'.at = None
    BY <1>9, <1>r, <1>n DEF StartRetain, StartPosting, EndFlush, StartFlush, AtRest
  <2> QED
    BY <2>1 DEF Looking
<1>10. ASSUME PostUsage \/ \E r \in wire : Deliver(r) \/ Lose(r)
      PROVE  Looking'
  <2>1. UNCHANGED <<rep, owed, entry, active>>
    BY <1>10 DEF PostUsage, Deliver, Lose, slots, meter
  <2> QED
    BY <2>1 DEF Looking
<1>11. CASE Restart
  BY <1>11, <1>n DEF Restart, Looking
<1>12. CASE UNCHANGED vars
  BY <1>12 DEF vars, slots, meter, Looking
<1> QED
  BY <1>1, <1>2, <1>3, <1>4, <1>5, <1>6, <1>7, <1>8, <1>9, <1>10, <1>11, <1>12
     DEF Next, Handler, Reporter, Flush

LEMMA SlotInvInductive ==
  ASSUME SlotInv, [Next]_vars
  PROVE  SlotInv'
BY TypesInductive, CountsInductive, HoldersInductive, LookingInductive DEF SlotInv

LEMMA SlotInvInit ==
  ASSUME Init
  PROVE  SlotInv
<1> USE MeterAssumption DEF Init
<1>1. At(Counting) = {} /\ \A o \in Conn : HeldBy(o) = {}
  BY DEF At, HeldBy, Counting, Admitted
<1>2. Counts
  BY <1>1, FS_EmptySet DEF Counts
<1>3. TypeOK /\ WireType
  BY DEF TypeOK, WireType, AtRest, Phase
<1>4. Holders /\ Looking
  BY DEF Holders, Holding, Looking, AtRest
<1> QED
  BY <1>2, <1>3, <1>4 DEF SlotInv

(* The counters of quota.rs keep their types, and each of them counts the   *)
(* handlers that have yet to give back what they took.                      *)
THEOREM CountersAreRight == Spec => []SlotInv
<1>1. Init => SlotInv
  BY SlotInvInit
<1>2. SlotInv /\ [Next]_vars => SlotInv'
  BY SlotInvInductive
<1> QED
  BY <1>1, <1>2, PTL DEF Spec

-------------------------------------------------------------------------------
(* The limits. *)

LEMMA WinnersAreHolders ==
  ASSUME NEW o \in Conn
  PROVE  WinnersOf(o) \subseteq HeldBy(o) /\ WinnersOf(o) \in SUBSET Conn
         /\ HeldBy(o) \in SUBSET Conn
BY DEF WinnersOf, HeldBy

LEMMA LimitsInductive ==
  ASSUME SlotInv, Limits, [Next]_vars
  PROVE  Limits'
<1> USE MeterAssumption
<1>a. At(Admitted) \in SUBSET Conn /\ At(Admitted)' \in SUBSET Conn
      /\ At(Counting) \in SUBSET Conn /\ At(Admitted) \subseteq At(Counting)
  BY DEF At, Counting
<1>w. \A o \in Conn : WinnersOf(o)' \in SUBSET Conn
  BY DEF WinnersOf, HeldBy
<1>s. MaxTotal \in Nat /\ MaxPerAccount \in Nat
  OBVIOUS
(* It is enough that the sets do not grow. *)
<1>b. ASSUME At(Admitted)' \subseteq At(Admitted)
      PROVE  Cardinality(At(Admitted)') <= MaxTotal
  BY <1>a, <1>b, <1>s, NotMore DEF Limits
<1>c. ASSUME NEW o \in Conn, WinnersOf(o)' \subseteq WinnersOf(o)
      PROVE  Cardinality(WinnersOf(o)') <= MaxPerAccount
  BY <1>c, <1>s, WinnersAreHolders, NotMore DEF Limits
<1>1. ASSUME NEW c \in Conn, CountTotal(c)
      PROVE  Limits'
  <2>1. /\ pc[c] = "idle" /\ UNCHANGED <<obj, slot>>
        /\ pc' = [pc EXCEPT ![c] = IF total + 1 > MaxTotal THEN "full" ELSE "counted"]
    BY <1>1 DEF CountTotal
  <2>2. CASE total + 1 > MaxTotal
    <3>1. At(Admitted)' \subseteq At(Admitted)
      BY <2>1, <2>2 DEF At, Admitted, SlotInv, TypeOK
    <3>2. \A o \in Conn : WinnersOf(o)' \subseteq WinnersOf(o)
      BY <2>1, <2>2 DEF WinnersOf, HeldBy, Winner, WithinLimit, Inside, SlotInv, TypeOK
    <3> QED
      BY <1>b, <1>c, <3>1, <3>2 DEF Limits
  <2>3. CASE ~(total + 1 > MaxTotal)
    <3>1. At(Admitted)' = At(Admitted) \cup {c} /\ c \notin At(Admitted)
      BY <2>1, <2>3 DEF At, Admitted, SlotInv, TypeOK
    <3>2. \A o \in Conn : WinnersOf(o)' \subseteq WinnersOf(o)
      BY <2>1, <2>3 DEF WinnersOf, HeldBy, Winner, WithinLimit, Inside, SlotInv, TypeOK
    <3>3. Cardinality(At(Admitted)) <= total /\ total \in Nat
      BY <1>a, NotMore DEF SlotInv, Counts, TypeOK
    <3>4. Cardinality(At(Admitted)') = Cardinality(At(Admitted)) + 1
      BY <1>a, <3>1, OneMore
    <3>5. Cardinality(At(Admitted)) \in Nat
      BY <1>a, ConnSubset
    <3>6. Cardinality(At(Admitted)') <= MaxTotal
      BY <2>3, <3>3, <3>4, <3>5, <1>s
    <3> QED
      BY <1>c, <3>2, <3>6 DEF Limits
  <2> QED
    BY <2>2, <2>3
<1>2. ASSUME NEW c \in Conn, Enter(c)
      PROVE  Limits'
  <2> DEFINE o == TheEntry(c)
  <2>1. /\ o \in Conn /\ pc[c] = "counted" /\ pc' = [pc EXCEPT ![c] = "entered"]
        /\ obj' = [obj EXCEPT ![c] = o] /\ slot' = [slot EXCEPT ![c] = active[o] + 1]
    BY <1>2, EntryType DEF Enter, SlotInv
  <2> HIDE DEF o
  <2>2. At(Admitted)' \subseteq At(Admitted)
    BY <2>1 DEF At, Admitted, SlotInv, TypeOK
  <2>3. obj[c] = None
    BY <2>1 DEF SlotInv, Holders, Holding
  <2>4. ASSUME NEW p \in Conn
        PROVE  Cardinality(WinnersOf(p)') <= MaxPerAccount
    <3>1. CASE p # o \/ ~(active[o] + 1 <= MaxPerAccount)
      <4>1. WinnersOf(p)' \subseteq WinnersOf(p)
        BY <2>1, <2>3, <3>1
           DEF WinnersOf, HeldBy, Winner, WithinLimit, Inside, SlotInv, TypeOK
      <4> QED
        BY <1>c, <4>1
    <3>2. CASE p = o /\ active[o] + 1 <= MaxPerAccount
      <4>1. WinnersOf(p)' = WinnersOf(p) \cup {c}
        BY <2>1, <2>3, <3>2
           DEF WinnersOf, HeldBy, Winner, WithinLimit, Inside, SlotInv, TypeOK
      <4>2. c \notin WinnersOf(p)
        BY <2>3 DEF WinnersOf, HeldBy
      <4>3. Cardinality(WinnersOf(p)') = Cardinality(WinnersOf(p)) + 1
        BY <4>1, <4>2, OneMore, WinnersAreHolders
      <4>4. Cardinality(WinnersOf(p)) <= active[p] /\ Cardinality(WinnersOf(p)) \in Nat
            /\ active[p] \in Nat
        BY WinnersAreHolders, NotMore DEF SlotInv, Counts, TypeOK
      <4> QED
        BY <3>2, <4>3, <4>4, <1>s
    <3> QED
      BY <3>1, <3>2
  <2> QED
    BY <1>b, <2>2, <2>4 DEF Limits
<1>3. ASSUME NEW c \in Conn, Decide(c) \/ LeaveAccount(c) \/ LeaveTotal(c) \/ Opened(c)
                             \/ NotOpened(c) \/ Closed(c)
      PROVE  Limits'
  <2>1. At(Admitted)' \subseteq At(Admitted)
    <3>1. PICK v : /\ pc' = [pc EXCEPT ![c] = v]
                   /\ v \in Admitted => pc[c] \in Admitted
      BY <1>3 DEF Decide, LeaveAccount, LeaveTotal, Opened, NotOpened, Closed, Admitted
    <3> QED
      BY <3>1 DEF At, SlotInv, TypeOK
  <2>2. ASSUME NEW o \in Conn
        PROVE  WinnersOf(o)' \subseteq WinnersOf(o)
    <3>1. CASE Decide(c)
      BY <3>1 DEF Decide, WinnersOf, HeldBy, Winner, WithinLimit, Inside, SlotInv, TypeOK
    <3>2. CASE LeaveAccount(c)
      BY <3>2 DEF LeaveAccount, WinnersOf, HeldBy, Winner, WithinLimit, Inside, SlotInv, TypeOK
    <3>3. CASE LeaveTotal(c)
      BY <3>3 DEF LeaveTotal, WinnersOf, HeldBy, Winner, WithinLimit, Inside, SlotInv, TypeOK
    <3>4. CASE Opened(c) \/ NotOpened(c) \/ Closed(c)
      BY <3>4 DEF Opened, NotOpened, Closed, WinnersOf, HeldBy, Winner, WithinLimit, Inside,
                  SlotInv, TypeOK
    <3> QED
      BY <1>3, <3>1, <3>2, <3>3, <3>4
  <2> QED
    BY <1>b, <1>c, <2>1, <2>2 DEF Limits
<1>4. CASE Restart
  <2>1. At(Admitted)' \subseteq At(Admitted)
    BY <1>4 DEF Restart, At, Admitted
  <2>2. \A o \in Conn : WinnersOf(o)' \subseteq WinnersOf(o)
    BY <1>4 DEF Restart, WinnersOf, HeldBy
  <2> QED
    BY <1>b, <1>c, <2>1, <2>2 DEF Limits
<1>5. CASE UNCHANGED <<pc, obj, slot>>
  BY <1>5 DEF Limits, At, WinnersOf, HeldBy, Winner, WithinLimit
<1> QED
  BY SlotSteps, <1>1, <1>2, <1>3, <1>4, <1>5 DEF Evict, slots

LEMMA BehindInductive ==
  ASSUME SlotInv, BehindAnother, [Next]_vars
  PROVE  BehindAnother'
<1> USE MeterAssumption
<1>k. ASSUME ~Restart
      PROVE  \A w \in Conn : Won(w) => Won(w)'
  <2> USE DEF Won, Winner, WithinLimit, Inside, SlotInv, TypeOK
  <2>1. ASSUME NEW c \in Conn, CountTotal(c) \/ Opened(c) \/ NotOpened(c) \/ Closed(c)
        PROVE  \A w \in Conn : Won(w) => Won(w)'
    BY <2>1 DEF CountTotal, Opened, NotOpened, Closed
  <2>2. ASSUME NEW c \in Conn, Enter(c)
        PROVE  \A w \in Conn : Won(w) => Won(w)'
    BY <2>2 DEF Enter
  <2>3. ASSUME NEW c \in Conn, Decide(c)
        PROVE  \A w \in Conn : Won(w) => Won(w)'
    BY <2>3 DEF Decide
  <2>4. ASSUME NEW c \in Conn, LeaveAccount(c) \/ LeaveTotal(c)
        PROVE  \A w \in Conn : Won(w) => Won(w)'
    BY <2>4 DEF LeaveAccount, LeaveTotal
  <2>5. CASE UNCHANGED <<pc, slot>>
    BY <2>5
  <2> QED
    BY SlotSteps, <1>k, <2>1, <2>2, <2>3, <2>4, <2>5 DEF Evict, slots
<1>1. ASSUME ~Restart, NEW c \in Conn, Lost(c)', Lost(c)
      PROVE  \E w \in Conn : AccountOf[w] = AccountOf[c] /\ Won(w)'
  BY <1>1, <1>k DEF BehindAnother
(* Who enters over the limit finds a holder, who has won or lost. *)
<1>2. ASSUME ~Restart, NEW c \in Conn, Lost(c)', ~Lost(c)
      PROVE  \E w \in Conn : AccountOf[w] = AccountOf[c] /\ Won(w)'
  <2>1. Enter(c) /\ active[TheEntry(c)] + 1 > MaxPerAccount
    <3> USE DEF Lost, WithinLimit, SlotInv, TypeOK
    <3>1. ASSUME NEW x \in Conn, CountTotal(x) \/ Opened(x) \/ NotOpened(x) \/ Closed(x)
                                 \/ LeaveAccount(x) \/ LeaveTotal(x)
          PROVE  FALSE
      BY <1>2, <3>1 DEF CountTotal, Opened, NotOpened, Closed, LeaveAccount, LeaveTotal
    <3>2. ASSUME NEW x \in Conn, Decide(x)
          PROVE  FALSE
      BY <1>2, <3>2 DEF Decide
    <3>3. ASSUME NEW x \in Conn, Enter(x)
          PROVE  Enter(c) /\ active[TheEntry(c)] + 1 > MaxPerAccount
      <4>1. TheEntry(x) \in Conn
        BY EntryType
      <4>2. active[TheEntry(x)] + 1 \in Nat
        BY <4>1
      <4>3. x = c
        BY <1>2, <3>3 DEF Enter
      <4> QED
        BY <1>2, <3>3, <4>2, <4>3 DEF Enter
    <3>4. CASE UNCHANGED <<pc, slot>>
      BY <1>2, <3>4
    <3> QED
      BY SlotSteps, <1>2, <3>1, <3>2, <3>3, <3>4 DEF Evict, slots
  <2>2. TheEntry(c) \in Conn /\ active[TheEntry(c)] # 0
    BY <2>1, EntryType DEF SlotInv, TypeOK
  <2>3. PICK h \in Conn : obj[h] = TheEntry(c)
    <3>1. HeldBy(TheEntry(c)) \in SUBSET Conn /\ HeldBy(TheEntry(c)) # {}
      BY <2>2, NoneLeft DEF HeldBy, SlotInv, Counts
    <3> QED
      BY <3>1 DEF HeldBy
  <2>4. AccountOf[h] = AccountOf[c]
    <3>1. entry[AccountOf[h]] = TheEntry(c) /\ AccountOf[TheEntry(c)] = AccountOf[h]
      BY <2>2, <2>3 DEF SlotInv, Holders
    <3>2. AccountOf[TheEntry(c)] = AccountOf[c]
      BY DEF TheEntry, SlotInv, Holders
    <3> QED
      BY <3>1, <3>2
  <2>5. pc[h] \in Holding
    BY <2>2, <2>3 DEF SlotInv, Holders
  <2>6. Won(h) \/ Lost(h)
    BY <2>5 DEF Won, Winner, Lost, Holding, Inside
  <2> QED
    BY <1>2, <1>k, <2>4, <2>6 DEF BehindAnother
<1>3. CASE Restart
  BY <1>3 DEF Restart, BehindAnother, Lost
<1>4. CASE ~Restart
  BY <1>1, <1>2, <1>4 DEF BehindAnother
<1> QED
  BY <1>3, <1>4

LEMMA SlotsInvariant == Spec => [](SlotInv /\ Limits /\ BehindAnother)
<1>1. Init => Limits /\ BehindAnother
  <2> SUFFICES ASSUME Init PROVE Limits /\ BehindAnother
    OBVIOUS
  <2>1. At(Admitted) = {} /\ \A o \in Conn : WinnersOf(o) = {}
    BY MeterAssumption DEF Init, At, Admitted, WinnersOf, HeldBy
  <2>2. Limits
    BY <2>1, FS_EmptySet, MeterAssumption DEF Limits
  <2>3. BehindAnother
    BY DEF Init, BehindAnother, Lost
  <2> QED
    BY <2>2, <2>3
<1>2. SlotInv /\ Limits /\ BehindAnother /\ [Next]_vars => (Limits /\ BehindAnother)'
  BY LimitsInductive, BehindInductive
<1> QED
  BY <1>1, <1>2, CountersAreRight, PTL DEF Spec

(* No path through acquire, the handlers and the guard's drop leaks a slot, *)
(* and whoever the account's limit refuses lost to an attempt that got in   *)
(* (quota.rs, acquire), whatever races what.                                *)
THEOREM SlotsAreRight == Spec => []SlotsRight
<1>1. SlotInv => NoSlotLeaks
  <2> SUFFICES ASSUME SlotInv, \A c \in Conn : Settled(c)
               PROVE  total = 0 /\ \A c \in Conn : active[c] = 0
    BY DEF NoSlotLeaks
  <2>1. At(Counting) = {}
    BY DEF At, Counting, Admitted, Settled
  <2>2. \A o \in Conn : HeldBy(o) = {}
    BY MeterAssumption DEF HeldBy, SlotInv, Holders, Holding, Settled
  <2> QED
    BY <2>1, <2>2, FS_EmptySet DEF SlotInv, Counts
<1>2. BehindAnother => RefusedOnlyBehindAnother
  BY DEF BehindAnother, RefusedOnlyBehindAnother, Lost, Won, Winner, Inside
<1> QED
  BY <1>1, <1>2, SlotsInvariant, PTL DEF SlotsRight

(* The atomics of Quotas::acquire and ConnectionGuard::drop implement a    *)
(* pool of slots: however their operations interleave, with each other and *)
(* with the reporter's eviction of entries, an attempt is let in only      *)
(* while its account and the relay have a slot free.                       *)
THEOREM ImplementsSlotPool == Spec => IsSlotPool
<1> DEFINE in == {c \in Conn : pc[c] \in {"granted", "open", "leaving"}}
<1>c. \A S : Pool!Cardinality(S) = Cardinality(S)
  BY DEF Pool!Cardinality, Cardinality
<1>1. Init => Pool!Init
  BY DEF Init, Pool!Init
<1>2. SlotInv /\ Limits /\ [Next]_vars => [Pool!Next]_in
  <2> SUFFICES ASSUME SlotInv, Limits, [Next]_vars
               PROVE  Pool!Next \/ UNCHANGED in
    OBVIOUS
  <2>1. ASSUME NEW c \in Conn, Decide(c), WithinLimit(c)
        PROVE  Pool!Admit(c)
    <3>1. pc[c] = "entered" /\ pc' = [pc EXCEPT ![c] = "granted"]
      BY <2>1 DEF Decide
    <3>2. in' = in \cup {c} /\ c \notin in
      BY <3>1 DEF SlotInv, TypeOK
    <3>3. Cardinality(in) < MaxTotal
      <4>1. At(Admitted) \in SUBSET Conn /\ in \subseteq At(Admitted) \ {c}
            /\ c \in At(Admitted)
        BY <3>1 DEF At, Admitted
      <4>2. Cardinality(At(Admitted) \ {c}) = Cardinality(At(Admitted)) - 1
            /\ Cardinality(At(Admitted)) \in Nat
        BY <4>1, OneLess
      <4>3. At(Admitted) \ {c} \in SUBSET Conn /\ in \in SUBSET (At(Admitted) \ {c})
        BY <4>1
      <4>4. Cardinality(in) <= Cardinality(At(Admitted) \ {c}) /\ Cardinality(in) \in Nat
        BY <4>3, NotMore
      <4> QED
        BY <4>2, <4>4, MeterAssumption DEF Limits
    <3>4. Cardinality({d \in in : AccountOf[d] = AccountOf[c]}) < MaxPerAccount
      <4> DEFINE mine == {d \in in : AccountOf[d] = AccountOf[c]}
                 o == obj[c]
      <4>1. o \in Conn /\ entry[AccountOf[c]] = o
        BY <3>1, MeterAssumption DEF SlotInv, Holders, Holding, TypeOK
      <4>2. mine \subseteq WinnersOf(o) \ {c}
        BY <3>1, <4>1, MeterAssumption
           DEF WinnersOf, HeldBy, Winner, Inside, SlotInv, Holders, Holding
      <4>3. c \in WinnersOf(o) /\ WinnersOf(o) \in SUBSET Conn
        BY <2>1, <3>1 DEF WinnersOf, HeldBy, Winner
      <4>4. Cardinality(WinnersOf(o) \ {c}) = Cardinality(WinnersOf(o)) - 1
            /\ Cardinality(WinnersOf(o)) \in Nat
        BY <4>3, OneLess
      <4>5. WinnersOf(o) \ {c} \in SUBSET Conn /\ mine \in SUBSET (WinnersOf(o) \ {c})
        BY <4>2, <4>3
      <4>6. Cardinality(mine) <= Cardinality(WinnersOf(o) \ {c}) /\ Cardinality(mine) \in Nat
        BY <4>5, NotMore
      <4>7. Cardinality(WinnersOf(o)) <= MaxPerAccount
        BY <4>1 DEF Limits
      <4> QED
        BY <4>4, <4>6, <4>7, MeterAssumption
    <3> QED
      BY <3>2, <3>3, <3>4, <1>c DEF Pool!Admit
  <2>2. ASSUME NEW c \in Conn, LeaveAccount(c), pc[c] = "leaving"
        PROVE  Pool!Leave(c)
    <3>1. in' = in \ {c} /\ c \in in
      BY <2>2 DEF LeaveAccount, SlotInv, TypeOK
    <3> QED
      BY <3>1 DEF Pool!Leave
  <2>3. CASE Restart
    BY <2>3 DEF Restart, Pool!Next, Pool!Restart
  <2>4. ASSUME NEW c \in Conn, \/ CountTotal(c) \/ Enter(c) \/ LeaveTotal(c) \/ Opened(c)
                               \/ NotOpened(c) \/ Closed(c)
                               \/ Decide(c) /\ ~WithinLimit(c)
                               \/ LeaveAccount(c) /\ pc[c] # "leaving"
        PROVE  UNCHANGED in
    <3>1. PICK v : /\ pc' = [pc EXCEPT ![c] = v]
                   /\ v \in Inside <=> pc[c] \in Inside
      BY <2>4 DEF CountTotal, Enter, LeaveTotal, Opened, NotOpened, Closed, Decide,
                  LeaveAccount, Inside
    <3> QED
      BY <3>1 DEF SlotInv, TypeOK, Inside
  <2>5. CASE UNCHANGED pc
    BY <2>5
  <2> HIDE DEF in
  <2> QED
    BY SlotSteps, <2>1, <2>2, <2>3, <2>4, <2>5 DEF Evict, slots, Pool!Next
<1> QED
  BY <1>1, <1>2, SlotsInvariant, PTL DEF Spec, IsSlotPool, Pool!Spec

-------------------------------------------------------------------------------
(* The bytes. A frame is in one counter, in one batch entry and in one      *)
(* request at a time, and the reporter only fills batch entries it has not  *)
(* filled in this flush.                                                    *)
Apart == \A c \in Conn : owed[c]["up"] \cap owed[c]["down"] = {}

OneRequest ==
  \A r, s \in wire : \A f \in Frame : f \in Carried(r) /\ f \in Carried(s) => r = s

Drained ==
  \A a \in Account :
    \/ rep.phase \in {"waiting", "stopped"}
    \/ rep.phase = "swapping" /\ a \notin rep.seen /\ rep.at # a
    => batch[a] = {}

ByteInv == BytesRight /\ Apart /\ OneRequest /\ Drained

LEMMA OneCounter ==
  ASSUME SlotInv, ByteInv, NEW f \in Frame, NEW c \in Conn, NEW d \in Dir, f \in owed[c][d],
         NEW b \in Conn, NEW e \in Dir, f \in owed[b][e]
  PROVE  b = c /\ e = d
<1>1. AccountOf[c] \in Account /\ AccountOf[b] \in Account
  BY MeterAssumption
<1>2. Charged(AccountOf[c], f) /\ Charged(AccountOf[b], f)
  BY DEF Charged
<1>3. AccountOf[c] = AccountOf[b]
  BY <1>1, <1>2 DEF ByteInv, BytesRight, ChargedToItsAccount
<1>4. b = c
  BY <1>3 DEF ByteInv, BytesRight, OwedIsReachable
<1> QED
  BY <1>4 DEF ByteInv, Apart, Dir

LEMMA OneBatch ==
  ASSUME ByteInv, NEW f \in Frame, NEW a \in Account, NEW b \in Account,
         f \in batch[a], f \in batch[b]
  PROVE  a = b
BY DEF ByteInv, BytesRight, ChargedToItsAccount, Charged

LEMMA OneLine ==
  ASSUME ByteInv, WireType, NEW f \in Frame, NEW r \in wire,
         NEW a \in DOMAIN r, NEW b \in DOMAIN r, f \in r[a], f \in r[b]
  PROVE  a = b
<1>1. a \in Account /\ b \in Account
  BY DEF WireType
<1> QED
  BY <1>1 DEF ByteInv, BytesRight, ChargedToItsAccount, Charged

(* What each step does to the place of a frame. *)

LEMMA ForwardMoves ==
  ASSUME SlotInv, NEW c \in Conn, NEW d \in Dir, NEW g \in Frame, Forward(c, d, g)
  PROVE  /\ obj[c] \in Conn /\ AccountOf[obj[c]] = AccountOf[c]
         /\ entry[AccountOf[c]] = obj[c]
         /\ \A b \in Conn, e \in Dir :
              owed'[b][e] = IF b = obj[c] /\ e = d THEN owed[b][e] \cup {g} ELSE owed[b][e]
         /\ \A f \in Frame : by'[f] = IF f = g THEN c ELSE by[f]
         /\ by[g] = None
         /\ UNCHANGED <<slots, batch, ledger, rep, wire, gone>>
<1>1. obj[c] \in Conn
  BY MeterAssumption DEF Forward, SlotInv, Holders, Holding, TypeOK
<1>2. AccountOf[c] \in Account /\ entry[AccountOf[c]] = obj[c]
  BY <1>1, MeterAssumption DEF SlotInv, Holders
<1>3. AccountOf[obj[c]] = AccountOf[c]
  BY <1>1, <1>2, MeterAssumption DEF SlotInv, Holders
<1>4. owed' = [owed EXCEPT ![obj[c]][d] = @ \cup {g}]
  BY DEF Forward
<1>5. \A b \in Conn, e \in Dir :
        owed'[b][e] = IF b = obj[c] /\ e = d THEN owed[b][e] \cup {g} ELSE owed[b][e]
  BY <1>1, <1>4 DEF SlotInv, TypeOK
<1>6. \A f \in Frame : by'[f] = IF f = g THEN c ELSE by[f]
  BY DEF Forward, SlotInv, TypeOK
<1> QED
  BY <1>1, <1>2, <1>3, <1>5, <1>6 DEF Forward

(* The counter a swap takes, and the batch entry it goes to. *)
LEMMA SwapMoves ==
  ASSUME SlotInv, ByteInv, NEW a \in Account, SwapUp(a) \/ SwapDown(a)
  PROVE  \E d \in Dir :
           /\ entry[a] \in Conn /\ AccountOf[entry[a]] = a
           /\ \A b \in Conn, e \in Dir :
                owed'[b][e] = IF b = entry[a] /\ e = d THEN {} ELSE owed[b][e]
           /\ \A b \in Account :
                batch'[b] = IF b = a THEN batch[a] \cup owed[entry[a]][d] ELSE batch[b]
           /\ ledger' = ledger /\ by' = by /\ wire' = wire /\ gone' = gone /\ entry' = entry
<1>1. entry[a] \in Conn
  BY MeterAssumption DEF SlotInv, SwapUp, SwapDown, Held, Looking, TypeOK
<1>2. AccountOf[entry[a]] = a
  BY <1>1, MeterAssumption DEF SlotInv, Holders
<1>d. "up" \in Dir /\ "down" \in Dir
  BY DEF Dir
<1>3. ASSUME NEW d \in Dir, owed' = Taken(a, d)
      PROVE  \A b \in Conn, e \in Dir :
                owed'[b][e] = IF b = entry[a] /\ e = d THEN {} ELSE owed[b][e]
  BY <1>1, <1>3 DEF Taken, SlotInv, TypeOK
<1>4. CASE SwapUp(a)
  <2>1. batch[a] = {}
    BY <1>4, MeterAssumption DEF SwapUp, ByteInv, Drained
  <2>2. /\ owed' = Taken(a, "up") /\ batch' = [batch EXCEPT ![a] = owed[entry[a]]["up"]]
        /\ ledger' = ledger /\ by' = by /\ wire' = wire /\ gone' = gone /\ entry' = entry
    BY <1>4 DEF SwapUp, slots
  <2>3. \A b \in Account :
          batch'[b] = IF b = a THEN batch[a] \cup owed[entry[a]]["up"] ELSE batch[b]
    BY <2>1, <2>2 DEF SlotInv, TypeOK
  <2> QED
    BY <1>1, <1>2, <1>d, <1>3, <2>2, <2>3
<1>5. CASE SwapDown(a)
  <2>2. /\ owed' = Taken(a, "down")
        /\ batch' = [batch EXCEPT ![a] = @ \cup owed[entry[a]]["down"]]
        /\ ledger' = ledger /\ by' = by /\ wire' = wire /\ gone' = gone /\ entry' = entry
    BY <1>5 DEF SwapDown, slots
  <2>3. \A b \in Account :
          batch'[b] = IF b = a THEN batch[a] \cup owed[entry[a]]["down"] ELSE batch[b]
    BY <2>2 DEF SlotInv, TypeOK
  <2> QED
    BY <1>1, <1>2, <1>d, <1>3, <2>2, <2>3
<1> QED
  BY <1>4, <1>5

LEMMA ForwardKeepsBytes ==
  ASSUME SlotInv, ByteInv, NEW c \in Conn, NEW d \in Dir, NEW g \in Frame, Forward(c, d, g)
  PROVE  BytesRight' /\ Apart' /\ OneRequest'
<1> DEFINE o == obj[c]
<1>m. /\ o \in Conn /\ AccountOf[o] = AccountOf[c] /\ entry[AccountOf[c]] = o
      /\ \A b \in Conn, e \in Dir :
           owed'[b][e] = IF b = o /\ e = d THEN owed[b][e] \cup {g} ELSE owed[b][e]
      /\ \A f \in Frame : by'[f] = IF f = g THEN c ELSE by[f]
      /\ by[g] = None /\ c # None
      /\ batch' = batch /\ ledger' = ledger /\ wire' = wire /\ gone' = gone /\ entry' = entry
  BY ForwardMoves, MeterAssumption DEF slots
<1> HIDE DEF o
<1>n. /\ ~InOwed(g) /\ ~InBatch(g) /\ ~OnWire(g) /\ ~InLedger(g) /\ g \notin gone
      /\ \A a \in Account : ~Charged(a, g)
  BY <1>m DEF ByteInv, BytesRight, CountedOnce, ChargedToItsAccount
<1>o. \A b \in Conn, e \in Dir, f \in Frame :
        f \in owed'[b][e] <=> f \in owed[b][e] \/ (b = o /\ e = d /\ f = g)
  <2> TAKE b \in Conn, e \in Dir, f \in Frame
  <2>1. owed'[b][e] = IF b = o /\ e = d THEN owed[b][e] \cup {g} ELSE owed[b][e]
    BY <1>m
  <2> QED
    BY <2>1
<1>1. OwedIsReachable'
  <2> SUFFICES ASSUME NEW b \in Conn, NEW e \in Dir, owed'[b][e] # {}
               PROVE  entry[AccountOf[b]] = b
    BY <1>m DEF OwedIsReachable
  <2>1. CASE b = o
    BY <1>m, <2>1
  <2>2. CASE b # o
    BY <1>m, <2>2 DEF OwedIsReachable, ByteInv, BytesRight
  <2> QED
    BY <2>1, <2>2
<1>2. ChargedToItsAccount'
  <2> SUFFICES ASSUME NEW a \in Account, NEW f \in Frame, Charged(a, f)'
               PROVE  by'[f] # None /\ AccountOf[by'[f]] = a
    BY DEF ChargedToItsAccount
  <2>1. CASE f = g
    <3>1. PICK b \in Conn, e \in Dir : AccountOf[b] = a /\ f \in owed'[b][e]
      BY <1>m, <1>n, <2>1 DEF Charged
    <3>2. b = o
      BY <1>m, <1>n, <2>1, <3>1 DEF Charged
    <3> QED
      BY <1>m, <2>1, <3>1, <3>2
  <2>2. CASE f # g
    <3>1. Charged(a, f)
      <4>1. (\E b \in Conn, e \in Dir : AccountOf[b] = a /\ f \in owed'[b][e])
              => \E b \in Conn, e \in Dir : AccountOf[b] = a /\ f \in owed[b][e]
        BY <1>o, <2>2
      <4>2. batch' = batch /\ wire' = wire /\ ledger' = ledger
        BY <1>m
      <4> QED
        BY <4>1, <4>2 DEF Charged
    <3> QED
      BY <1>m, <2>2, <3>1 DEF ByteInv, BytesRight, ChargedToItsAccount
  <2> QED
    BY <2>1, <2>2
<1>3. CountedOnce'
  <2> SUFFICES ASSUME NEW f \in Frame
               PROVE  /\ \A a \in Account : ledger'[a][f] <= 1
                      /\ by'[f] # None <=> InOwed(f)' \/ InBatch(f)' \/ OnWire(f)' \/ InLedger(f)'
                                           \/ f \in gone'
                      /\ InOwed(f)' => ~InBatch(f)' /\ ~OnWire(f)' /\ ~InLedger(f)' /\ f \notin gone'
                      /\ InBatch(f)' => ~OnWire(f)' /\ ~InLedger(f)' /\ f \notin gone'
                      /\ OnWire(f)' => ~InLedger(f)' /\ f \notin gone'
                      /\ InLedger(f)' => f \notin gone'
    BY DEF CountedOnce
  <2>1. /\ InBatch(f)' <=> InBatch(f)
        /\ OnWire(f)' <=> OnWire(f)
        /\ InLedger(f)' <=> InLedger(f)
    BY <1>m DEF InBatch, OnWire, InLedger
  <2>2. InOwed(f)' <=> InOwed(f) \/ f = g
    <3>1. o \in Conn
      BY <1>m
    <3> QED
      BY <1>o, <3>1 DEF InOwed
  <2>3. by'[f] # None <=> by[f] # None \/ f = g
    BY <1>m
  <2> QED
    BY <1>m, <1>n, <2>1, <2>2, <2>3 DEF ByteInv, BytesRight, CountedOnce
<1>4. Apart'
  BY <1>m, <1>n DEF Apart, ByteInv, InOwed, Dir
<1>5. OneRequest'
  BY <1>m DEF OneRequest, ByteInv
<1> QED
  BY <1>1, <1>2, <1>3, <1>4, <1>5 DEF BytesRight

LEMMA SwapKeepsBytes ==
  ASSUME SlotInv, ByteInv, NEW a \in Account, SwapUp(a) \/ SwapDown(a)
  PROVE  BytesRight' /\ Apart' /\ OneRequest'
<1> DEFINE o == entry[a]
<1>m. PICK d \in Dir :
        /\ o \in Conn /\ AccountOf[o] = a
        /\ \A b \in Conn, e \in Dir :
             owed'[b][e] = IF b = o /\ e = d THEN {} ELSE owed[b][e]
        /\ \A b \in Account : batch'[b] = IF b = a THEN batch[a] \cup owed[o][d] ELSE batch[b]
        /\ ledger' = ledger /\ by' = by /\ wire' = wire /\ gone' = gone /\ entry' = entry
  BY SwapMoves
<1> HIDE DEF o
<1>1. OwedIsReachable'
  BY <1>m DEF OwedIsReachable, ByteInv, BytesRight
<1>2. ChargedToItsAccount'
  <2> SUFFICES ASSUME NEW b \in Account, NEW f \in Frame, Charged(b, f)'
               PROVE  Charged(b, f)
    BY <1>m DEF ChargedToItsAccount, ByteInv, BytesRight
  <2>1. CASE f \in batch'[b]
    BY <1>m, <2>1 DEF Charged
  <2>2. CASE \E c \in Conn, e \in Dir : AccountOf[c] = b /\ f \in owed'[c][e]
    BY <1>m, <2>2 DEF Charged
  <2> QED
    BY <1>m, <2>1, <2>2 DEF Charged
<1>3. CountedOnce'
  <2> SUFFICES ASSUME NEW f \in Frame
               PROVE  /\ \A b \in Account : ledger'[b][f] <= 1
                      /\ by'[f] # None <=> InOwed(f)' \/ InBatch(f)' \/ OnWire(f)' \/ InLedger(f)'
                                           \/ f \in gone'
                      /\ InOwed(f)' => ~InBatch(f)' /\ ~OnWire(f)' /\ ~InLedger(f)' /\ f \notin gone'
                      /\ InBatch(f)' => ~OnWire(f)' /\ ~InLedger(f)' /\ f \notin gone'
                      /\ OnWire(f)' => ~InLedger(f)' /\ f \notin gone'
                      /\ InLedger(f)' => f \notin gone'
    BY DEF CountedOnce
  <2>1. /\ OnWire(f)' <=> OnWire(f)
        /\ InLedger(f)' <=> InLedger(f)
    BY <1>m DEF OnWire, InLedger
  <2>2. InBatch(f)' <=> InBatch(f) \/ f \in owed[o][d]
    BY <1>m DEF InBatch
  <2>3. InOwed(f)' <=> InOwed(f) /\ f \notin owed[o][d]
    <3>1. ASSUME InOwed(f)'
          PROVE  InOwed(f) /\ f \notin owed[o][d]
      <4>1. PICK b \in Conn, e \in Dir : f \in owed'[b][e]
        BY <3>1 DEF InOwed
      <4>2. f \in owed[b][e] /\ ~(b = o /\ e = d)
        BY <1>m, <4>1
      <4> QED
        BY <1>m, <4>2, OneCounter DEF InOwed
    <3>2. ASSUME InOwed(f), f \notin owed[o][d]
          PROVE  InOwed(f)'
      BY <1>m, <3>2 DEF InOwed
    <3> QED
      BY <3>1, <3>2
  <2>4. f \in owed[o][d] => InOwed(f)
    BY <1>m DEF InOwed
  <2> QED
    BY <1>m, <2>1, <2>2, <2>3, <2>4 DEF ByteInv, BytesRight, CountedOnce
<1>4. Apart'
  BY <1>m DEF Apart, ByteInv, Dir
<1>5. OneRequest'
  BY <1>m DEF OneRequest, ByteInv
<1> QED
  BY <1>1, <1>2, <1>3, <1>4, <1>5 DEF BytesRight

LEMMA PostKeepsBytes ==
  ASSUME SlotInv, ByteInv, PostUsage
  PROVE  BytesRight' /\ Apart' /\ OneRequest'
<1>m. PICK chunk \in SUBSET Owing :
        /\ wire' = wire \cup {[a \in chunk |-> batch[a]]}
        /\ batch' = AfterPost(chunk)
        /\ ledger' = ledger /\ by' = by /\ owed' = owed /\ gone' = gone /\ entry' = entry
  BY DEF PostUsage, slots
<1> DEFINE new == [a \in chunk |-> batch[a]]
<1>c. chunk \subseteq Account
  BY DEF Owing
<1>b. \A a \in Account : batch'[a] = IF a \in chunk THEN {} ELSE batch[a]
  BY <1>m DEF AfterPost
<1>n. DOMAIN new = chunk /\ \A a \in chunk : new[a] = batch[a]
  OBVIOUS
<1>w. wire' = wire \cup {new}
  BY <1>m
<1> HIDE DEF new
<1>k. \A f \in Frame : f \in Carried(new) <=> \E a \in chunk : f \in batch[a]
  BY <1>n DEF Carried
<1>i. \A f \in Frame : f \in Carried(new) => InBatch(f) /\ ~OnWire(f)
  BY <1>k, <1>c DEF InBatch, ByteInv, BytesRight, CountedOnce
<1>1. OwedIsReachable'
  BY <1>m DEF OwedIsReachable, ByteInv, BytesRight
<1>2. ChargedToItsAccount'
  <2> SUFFICES ASSUME NEW b \in Account, NEW f \in Frame, Charged(b, f)'
               PROVE  Charged(b, f)
    BY <1>m DEF ChargedToItsAccount, ByteInv, BytesRight
  <2>1. CASE f \in batch'[b]
    BY <1>b, <2>1 DEF Charged
  <2>2. CASE \E r \in wire' : b \in DOMAIN r /\ f \in r[b]
    BY <1>w, <1>n, <2>2 DEF Charged
  <2> QED
    BY <1>m, <2>1, <2>2 DEF Charged
<1>3. CountedOnce'
  <2> SUFFICES ASSUME NEW f \in Frame
               PROVE  /\ \A b \in Account : ledger'[b][f] <= 1
                      /\ by'[f] # None <=> InOwed(f)' \/ InBatch(f)' \/ OnWire(f)' \/ InLedger(f)'
                                           \/ f \in gone'
                      /\ InOwed(f)' => ~InBatch(f)' /\ ~OnWire(f)' /\ ~InLedger(f)' /\ f \notin gone'
                      /\ InBatch(f)' => ~OnWire(f)' /\ ~InLedger(f)' /\ f \notin gone'
                      /\ OnWire(f)' => ~InLedger(f)' /\ f \notin gone'
                      /\ InLedger(f)' => f \notin gone'
    BY DEF CountedOnce
  <2>1. /\ InOwed(f)' <=> InOwed(f)
        /\ InLedger(f)' <=> InLedger(f)
    BY <1>m DEF InOwed, InLedger
  <2>2. InBatch(f)' <=> InBatch(f) /\ f \notin Carried(new)
    <3>1. ASSUME InBatch(f)'
          PROVE  InBatch(f) /\ f \notin Carried(new)
      <4>1. PICK a \in Account : f \in batch'[a]
        BY <3>1 DEF InBatch
      <4>2. a \notin chunk /\ f \in batch[a]
        BY <1>b, <4>1
      <4> QED
        BY <1>k, <1>c, <4>2, OneBatch DEF InBatch
    <3>2. ASSUME InBatch(f), f \notin Carried(new)
          PROVE  InBatch(f)'
      BY <1>b, <1>k, <3>2 DEF InBatch
    <3> QED
      BY <3>1, <3>2
  <2>3. OnWire(f)' <=> OnWire(f) \/ f \in Carried(new)
    <3>1. OnWire(f)' <=> \E r \in wire' : f \in Carried(r)
      BY DEF OnWire, Carried
    <3> QED
      BY <3>1, <1>w DEF OnWire
  <2> QED
    BY <1>m, <1>i, <2>1, <2>2, <2>3 DEF ByteInv, BytesRight, CountedOnce
<1>4. Apart'
  BY <1>m DEF Apart, ByteInv
<1>5. OneRequest'
  <2> SUFFICES ASSUME NEW r \in wire', NEW s \in wire', NEW f \in Frame,
                      f \in Carried(r), f \in Carried(s)
               PROVE  r = s
    BY DEF OneRequest, Carried
  <2>1. r \in wire => OnWire(f)
    BY DEF OnWire
  <2>2. s \in wire => OnWire(f)
    BY DEF OnWire
  <2> QED
    BY <1>w, <1>i, <2>1, <2>2 DEF OneRequest, ByteInv
<1> QED
  BY <1>1, <1>2, <1>3, <1>4, <1>5 DEF BytesRight

(* A request that arrives or is lost leaves the wire; nothing else is on it. *)
LEMMA LeavesWire ==
  ASSUME ByteInv, NEW r \in wire, wire' = wire \ {r}, NEW f \in Frame
  PROVE  OnWire(f)' <=> OnWire(f) /\ f \notin Carried(r)
<1>1. OnWire(f)' <=> \E s \in wire' : f \in Carried(s)
  BY DEF OnWire, Carried
<1> QED
  BY <1>1 DEF OnWire, ByteInv, OneRequest

LEMMA WireShrinks ==
  ASSUME ByteInv, NEW r \in wire, wire' = wire \ {r}
  PROVE  OneRequest'
<1>1. OneRequest' <=> \A s, t \in wire' : \A f \in Frame :
                        f \in Carried(s) /\ f \in Carried(t) => s = t
  BY DEF OneRequest, Carried
<1> QED
  BY <1>1 DEF ByteInv, OneRequest

LEMMA DeliverKeepsBytes ==
  ASSUME SlotInv, ByteInv, NEW r \in wire, Deliver(r)
  PROVE  BytesRight' /\ Apart' /\ OneRequest'
<1>m. /\ wire' = wire \ {r}
      /\ gone' = gone \cup UNION {r[a] : a \in DOMAIN r \ Booked}
      /\ owed' = owed /\ batch' = batch /\ by' = by /\ entry' = entry
  BY DEF Deliver, Book, slots
<1>l. \A a \in Account, f \in Frame :
        ledger'[a][f] = IF a \in Booked \cap DOMAIN r /\ f \in r[a] THEN ledger[a][f] + 1
                                                                 ELSE ledger[a][f]
  BY DEF Deliver, Book
<1>t. DOMAIN r \subseteq Account /\ Booked \subseteq Account
      /\ \A a \in Account, f \in Frame : ledger[a][f] \in Nat
  BY MeterAssumption DEF SlotInv, WireType, TypeOK
<1>g. \A f \in Frame : f \in gone' <=> f \in gone \/ \E a \in DOMAIN r \ Booked : f \in r[a]
  BY <1>m
<1>k. \A f \in Frame : f \in Carried(r) <=> \E a \in DOMAIN r : f \in r[a]
  BY DEF Carried
<1>z. \A f \in Frame : f \in Carried(r) =>
        /\ OnWire(f) /\ ~InLedger(f) /\ f \notin gone
        /\ \A a \in Account : ledger[a][f] = 0
  <2> TAKE f \in Frame
  <2> HAVE f \in Carried(r)
  <2>1. OnWire(f)
    BY DEF OnWire
  <2>2. ~InLedger(f) /\ f \notin gone
    BY <2>1 DEF ByteInv, BytesRight, CountedOnce
  <2> QED
    BY <1>t, <2>1, <2>2 DEF InLedger
<1>1. OwedIsReachable'
  BY <1>m DEF OwedIsReachable, ByteInv, BytesRight
<1>2. ChargedToItsAccount'
  <2> SUFFICES ASSUME NEW b \in Account, NEW f \in Frame, Charged(b, f)'
               PROVE  Charged(b, f)
    BY <1>m DEF ChargedToItsAccount, ByteInv, BytesRight
  <2>1. CASE ledger'[b][f] > 0
    <3>1. CASE b \in DOMAIN r /\ f \in r[b]
      BY <3>1 DEF Charged
    <3>2. CASE ~(b \in DOMAIN r /\ f \in r[b])
      BY <1>l, <2>1, <3>2 DEF Charged
    <3> QED
      BY <3>1, <3>2
  <2>2. CASE ~(ledger'[b][f] > 0)
    BY <1>m, <2>2 DEF Charged
  <2> QED
    BY <2>1, <2>2
<1>3. CountedOnce'
  <2> SUFFICES ASSUME NEW f \in Frame
               PROVE  /\ \A b \in Account : ledger'[b][f] <= 1
                      /\ by'[f] # None <=> InOwed(f)' \/ InBatch(f)' \/ OnWire(f)' \/ InLedger(f)'
                                           \/ f \in gone'
                      /\ InOwed(f)' => ~InBatch(f)' /\ ~OnWire(f)' /\ ~InLedger(f)' /\ f \notin gone'
                      /\ InBatch(f)' => ~OnWire(f)' /\ ~InLedger(f)' /\ f \notin gone'
                      /\ OnWire(f)' => ~InLedger(f)' /\ f \notin gone'
                      /\ InLedger(f)' => f \notin gone'
    BY DEF CountedOnce
  <2>1. /\ InOwed(f)' <=> InOwed(f)
        /\ InBatch(f)' <=> InBatch(f)
    BY <1>m DEF InOwed, InBatch
  <2>2. OnWire(f)' <=> OnWire(f) /\ f \notin Carried(r)
    BY <1>m, LeavesWire
  <2>3. \A b \in Account : ledger'[b][f] <= 1
    <3> TAKE b \in Account
    <3>1. CASE b \in Booked \cap DOMAIN r /\ f \in r[b]
      <4>1. ledger[b][f] = 0
        BY <1>k, <1>z, <3>1
      <4> QED
        BY <1>l, <3>1, <4>1
    <3>2. CASE ~(b \in Booked \cap DOMAIN r /\ f \in r[b])
      BY <1>l, <3>2 DEF ByteInv, BytesRight, CountedOnce
    <3> QED
      BY <3>1, <3>2
  <2>4. CASE f \notin Carried(r)
    <3>1. \A b \in Account : ledger'[b][f] = ledger[b][f]
      BY <1>l, <1>k, <2>4
    <3>2. (InLedger(f)' <=> InLedger(f)) /\ (f \in gone' <=> f \in gone)
      BY <3>1, <1>g, <1>k, <2>4 DEF InLedger
    <3> QED
      BY <1>m, <2>1, <2>2, <2>3, <2>4, <3>2 DEF ByteInv, BytesRight, CountedOnce
  <2>5. CASE f \in Carried(r)
    <3>1. PICK a \in DOMAIN r : f \in r[a]
      BY <1>k, <2>5
    <3>2. \A b \in DOMAIN r : f \in r[b] => b = a
      BY <3>1, OneLine DEF SlotInv
    <3>3. InLedger(f)' <=> a \in Booked
      <4>1. a \in Booked => ledger'[a][f] = 1
        BY <1>l, <1>t, <1>z, <2>5, <3>1
      <4>2. \A b \in Account : a \notin Booked => ledger'[b][f] = 0
        BY <1>l, <1>z, <2>5, <3>1, <3>2
      <4> QED
        BY <4>1, <4>2, <1>t DEF InLedger
    <3>4. f \in gone' <=> a \notin Booked
      BY <1>g, <1>z, <2>5, <3>1, <3>2
    <3>5. ~InOwed(f) /\ ~InBatch(f) /\ by[f] # None
      BY <1>z, <2>5 DEF ByteInv, BytesRight, CountedOnce
    <3> QED
      BY <1>m, <2>1, <2>2, <2>3, <2>5, <3>3, <3>4, <3>5
  <2> QED
    BY <2>4, <2>5
<1>4. Apart'
  BY <1>m DEF Apart, ByteInv
<1>5. OneRequest'
  BY <1>m, WireShrinks
<1> QED
  BY <1>1, <1>2, <1>3, <1>4, <1>5 DEF BytesRight

LEMMA LoseKeepsBytes ==
  ASSUME SlotInv, ByteInv, NEW r \in wire, Lose(r)
  PROVE  BytesRight' /\ Apart' /\ OneRequest'
<1>m. /\ wire' = wire \ {r} /\ gone' = gone \cup Carried(r) /\ ledger' = ledger
      /\ owed' = owed /\ batch' = batch /\ by' = by /\ entry' = entry
  BY DEF Lose, slots, meter
<1>1. OwedIsReachable' /\ Apart' /\ OneRequest'
  BY <1>m, WireShrinks DEF OwedIsReachable, ByteInv, BytesRight, Apart
<1>2. ChargedToItsAccount'
  BY <1>m DEF Charged, ChargedToItsAccount, ByteInv, BytesRight
<1>3. CountedOnce'
  <2> SUFFICES ASSUME NEW f \in Frame
               PROVE  /\ \A b \in Account : ledger'[b][f] <= 1
                      /\ by'[f] # None <=> InOwed(f)' \/ InBatch(f)' \/ OnWire(f)' \/ InLedger(f)'
                                           \/ f \in gone'
                      /\ InOwed(f)' => ~InBatch(f)' /\ ~OnWire(f)' /\ ~InLedger(f)' /\ f \notin gone'
                      /\ InBatch(f)' => ~OnWire(f)' /\ ~InLedger(f)' /\ f \notin gone'
                      /\ OnWire(f)' => ~InLedger(f)' /\ f \notin gone'
                      /\ InLedger(f)' => f \notin gone'
    BY DEF CountedOnce
  <2>1. /\ InOwed(f)' <=> InOwed(f)
        /\ InBatch(f)' <=> InBatch(f)
        /\ InLedger(f)' <=> InLedger(f)
    BY <1>m DEF InOwed, InBatch, InLedger
  <2>2. OnWire(f)' <=> OnWire(f) /\ f \notin Carried(r)
    BY <1>m, LeavesWire
  <2>3. f \in Carried(r) => OnWire(f)
    BY DEF OnWire
  <2>4. f \in gone' <=> f \in gone \/ f \in Carried(r)
    BY <1>m
  <2> QED
    BY <1>m, <2>1, <2>2, <2>3, <2>4 DEF ByteInv, BytesRight, CountedOnce
<1> QED
  BY <1>1, <1>2, <1>3 DEF BytesRight

LEMMA RestartKeepsBytes ==
  ASSUME SlotInv, ByteInv, Restart
  PROVE  BytesRight' /\ Apart' /\ OneRequest'
<1>m. /\ \A c \in Conn, d \in Dir : owed'[c][d] = {}
      /\ \A a \in Account : batch'[a] = {}
      /\ gone' = gone \cup Unreported
      /\ wire' = wire /\ ledger' = ledger /\ by' = by
  BY DEF Restart
<1>u. \A f \in Frame : f \in Unreported <=> InOwed(f) \/ InBatch(f)
  BY DEF Unreported, InOwed, InBatch
<1>1. OwedIsReachable'
  BY <1>m DEF OwedIsReachable
<1>2. ChargedToItsAccount'
  BY <1>m DEF Charged, ChargedToItsAccount, ByteInv, BytesRight
<1>3. CountedOnce'
  <2> SUFFICES ASSUME NEW f \in Frame
               PROVE  /\ \A b \in Account : ledger'[b][f] <= 1
                      /\ by'[f] # None <=> InOwed(f)' \/ InBatch(f)' \/ OnWire(f)' \/ InLedger(f)'
                                           \/ f \in gone'
                      /\ InOwed(f)' => ~InBatch(f)' /\ ~OnWire(f)' /\ ~InLedger(f)' /\ f \notin gone'
                      /\ InBatch(f)' => ~OnWire(f)' /\ ~InLedger(f)' /\ f \notin gone'
                      /\ OnWire(f)' => ~InLedger(f)' /\ f \notin gone'
                      /\ InLedger(f)' => f \notin gone'
    BY DEF CountedOnce
  <2>1. ~InOwed(f)' /\ ~InBatch(f)'
    BY <1>m DEF InOwed, InBatch
  <2>2. (OnWire(f)' <=> OnWire(f)) /\ (InLedger(f)' <=> InLedger(f))
    BY <1>m DEF OnWire, InLedger
  <2>3. f \in gone' <=> f \in gone \/ InOwed(f) \/ InBatch(f)
    BY <1>m, <1>u
  <2> QED
    BY <1>m, <2>1, <2>2, <2>3 DEF ByteInv, BytesRight, CountedOnce
<1>4. Apart' /\ OneRequest'
  BY <1>m DEF Apart, OneRequest, ByteInv, Dir
<1> QED
  BY <1>1, <1>2, <1>3, <1>4 DEF BytesRight

(* The other steps leave the bytes where they are; an acquire or an         *)
(* eviction changes the map.                                                *)
LEMMA MapKeepsBytes ==
  ASSUME SlotInv, ByteInv, UNCHANGED <<meter, wire, gone>>,
         \/ \E c \in Conn : Enter(c)
         \/ \E a \in Account : Evict(a)
         \/ UNCHANGED entry
  PROVE  BytesRight' /\ Apart' /\ OneRequest'
<1>m. UNCHANGED <<owed, batch, ledger, by, wire, gone>>
  BY DEF meter
<1>1. OwedIsReachable'
  <2>1. CASE \E c \in Conn : Enter(c)
    <3>1. PICK c \in Conn : entry' = [entry EXCEPT ![AccountOf[c]] = TheEntry(c)]
      BY <2>1 DEF Enter
    <3>2. \A a \in Account : entry[a] # None => entry'[a] = entry[a]
      BY <3>1 DEF TheEntry, SlotInv, TypeOK
    <3> QED
      BY <1>m, <3>2, MeterAssumption DEF OwedIsReachable, ByteInv, BytesRight
  <2>2. CASE \E a \in Account : Evict(a)
    <3>1. PICK a \in Account : Evict(a)
      BY <2>2
    <3>2. entry' = [entry EXCEPT ![a] = None]
          /\ owed[entry[a]]["up"] = {} /\ owed[entry[a]]["down"] = {}
      BY <3>1, EvictsUnheld DEF Evict
    <3>3. \A c \in Conn, d \in Dir : owed[c][d] # {} => AccountOf[c] # a
      BY <3>2 DEF OwedIsReachable, ByteInv, BytesRight, Dir
    <3> QED
      BY <1>m, <3>2, <3>3, MeterAssumption
         DEF OwedIsReachable, ByteInv, BytesRight, SlotInv, TypeOK
  <2>3. CASE UNCHANGED entry
    BY <1>m, <2>3 DEF OwedIsReachable, ByteInv, BytesRight
  <2> QED
    BY <2>1, <2>2, <2>3
<1>2. ChargedToItsAccount' /\ Apart' /\ OneRequest'
  BY <1>m DEF ChargedToItsAccount, Charged, ByteInv, BytesRight, Apart, OneRequest, Carried
<1>3. CountedOnce'
  BY <1>m DEF CountedOnce, InOwed, InBatch, OnWire, InLedger, Carried, ByteInv, BytesRight
<1> QED
  BY <1>1, <1>2, <1>3 DEF BytesRight

LEMMA DrainedInductive ==
  ASSUME SlotInv, ByteInv, [Next]_vars
  PROVE  Drained'
<1> USE MeterAssumption DEF ByteInv
<1>r. rep \in [phase : Phase, last : BOOLEAN, todo : SUBSET Account, seen : SUBSET Account,
               at : Account \cup {None}, load : 0..3]
      /\ batch \in [Account -> SUBSET Frame]
  BY DEF SlotInv, TypeOK
<1>1. ASSUME NEW a \in Account, SwapUp(a)
      PROVE  Drained'
  <2>1. rep' = [rep EXCEPT !.at = a] /\ rep.phase = "swapping" /\ rep.at = None
        /\ batch' = [batch EXCEPT ![a] = owed[entry[a]]["up"]]
    BY <1>1 DEF SwapUp
  <2> QED
    BY <1>r, <2>1 DEF Drained
<1>2. ASSUME NEW a \in Account, SwapDown(a)
      PROVE  Drained'
  <2>1. rep' = [rep EXCEPT !.at = None, !.seen = @ \cup {a}] /\ rep.phase = "swapping"
        /\ rep.at = a
        /\ batch' = [batch EXCEPT ![a] = @ \cup owed[entry[a]]["down"]]
    BY <1>2 DEF SwapDown
  <2> QED
    BY <1>r, <2>1 DEF Drained
<1>3. ASSUME NEW a \in Account, Look(a) \/ Keep(a) \/ LookOn(a) \/ Evict(a)
      PROVE  Drained'
  <2>1. rep'.phase = "retaining"
    BY <1>3, <1>r DEF Look, Keep, LookOn, Evict
  <2> QED
    BY <2>1 DEF Drained
<1>4. ASSUME StartRetain \/ StartPosting
      PROVE  Drained'
  <2>1. rep'.phase \in {"retaining", "posting"}
    BY <1>4, <1>r DEF StartRetain, StartPosting
  <2> QED
    BY <2>1 DEF Drained
<1>5. ASSUME EndFlush
      PROVE  Drained'
  <2>1. batch' = batch /\ \A a \in Account : batch[a] = {}
    BY <1>5 DEF EndFlush, Owing, meter
  <2> QED
    BY <2>1 DEF Drained
<1>6. ASSUME NEW last \in BOOLEAN, StartFlush(last)
      PROVE  Drained'
  BY <1>6 DEF StartFlush, Drained, meter
<1>7. ASSUME PostUsage
      PROVE  Drained'
  <2>1. rep' = rep /\ rep.phase = "posting"
    BY <1>7 DEF PostUsage
  <2> QED
    BY <2>1 DEF Drained
<1>8. CASE Restart
  BY <1>8 DEF Restart, Drained
<1>9. CASE UNCHANGED <<batch, rep>>
  BY <1>9 DEF Drained
<1>10. CASE \E c \in Conn, d \in Dir, f \in Frame : Forward(c, d, f)
  BY <1>9, <1>10 DEF Forward
<1>11. CASE \E r \in wire : Deliver(r) \/ Lose(r)
  BY <1>9, <1>11 DEF Deliver, Lose, meter
<1> QED
  BY ByteSteps, <1>1, <1>2, <1>3, <1>4, <1>5, <1>6, <1>7, <1>8, <1>9, <1>10, <1>11 DEF meter

LEMMA BytesInductive ==
  ASSUME SlotInv, ByteInv, [Next]_vars
  PROVE  ByteInv'
<1>1. CASE \E c \in Conn, d \in Dir, f \in Frame : Forward(c, d, f)
  BY <1>1, ForwardKeepsBytes, DrainedInductive DEF ByteInv
<1>2. CASE \E a \in Account : SwapUp(a) \/ SwapDown(a)
  BY <1>2, SwapKeepsBytes, DrainedInductive DEF ByteInv
<1>3. CASE PostUsage
  BY <1>3, PostKeepsBytes, DrainedInductive DEF ByteInv
<1>4. CASE \E r \in wire : Deliver(r)
  BY <1>4, DeliverKeepsBytes, DrainedInductive DEF ByteInv
<1>5. CASE \E r \in wire : Lose(r)
  BY <1>5, LoseKeepsBytes, DrainedInductive DEF ByteInv
<1>6. CASE Restart
  BY <1>6, RestartKeepsBytes, DrainedInductive DEF ByteInv
<1>7. ASSUME UNCHANGED <<meter, wire, gone>>,
             \/ \E c \in Conn : Enter(c)
             \/ \E a \in Account : Evict(a)
             \/ UNCHANGED entry
      PROVE  ByteInv'
  BY <1>7, MapKeepsBytes, DrainedInductive DEF ByteInv
<1>8. CASE \E c \in Conn : \/ CountTotal(c) \/ Enter(c) \/ Decide(c) \/ LeaveAccount(c)
                           \/ LeaveTotal(c) \/ Opened(c) \/ NotOpened(c) \/ Closed(c)
  <2>1. UNCHANGED <<meter, wire, gone>>
    BY <1>8 DEF CountTotal, Enter, Decide, LeaveAccount, LeaveTotal, Opened, NotOpened, Closed
  <2>2. (\E c \in Conn : Enter(c)) \/ UNCHANGED entry
    BY <1>8 DEF CountTotal, Decide, LeaveAccount, LeaveTotal, Opened, NotOpened, Closed
  <2> QED
    BY <1>7, <2>1, <2>2
<1>9. CASE \E a \in Account : Look(a) \/ Keep(a) \/ LookOn(a) \/ Evict(a)
  <2>1. UNCHANGED <<meter, wire, gone>>
    BY <1>9 DEF Look, Keep, LookOn, Evict
  <2>2. (\E a \in Account : Evict(a)) \/ UNCHANGED entry
    BY <1>9 DEF Look, Keep, LookOn, slots
  <2> QED
    BY <1>7, <2>1, <2>2
<1>10. CASE StartRetain \/ StartPosting \/ EndFlush \/ \E last \in BOOLEAN : StartFlush(last)
  <2>1. UNCHANGED <<meter, wire, gone, entry>>
    BY <1>10 DEF StartRetain, StartPosting, EndFlush, StartFlush, slots
  <2> QED
    BY <1>7, <2>1
<1>11. CASE UNCHANGED vars
  BY <1>7, <1>11 DEF vars, slots
<1> QED
  BY <1>1, <1>2, <1>3, <1>4, <1>5, <1>6, <1>8, <1>9, <1>10, <1>11
     DEF Next, Handler, Reporter, Flush

(* Every frame the relay forwarded is counted exactly once, for the account *)
(* whose connection moved it, and only ever owed by a counter the reporter  *)
(* still reads, however acquires, copies, swaps, evictions, posts, losses   *)
(* and restarts interleave (quota.rs drain_usage, reporter.rs, the usage    *)
(* route).                                                                  *)
THEOREM BytesAreRight == Spec => []BytesRight
<1>1. Init => ByteInv
  <2> SUFFICES ASSUME Init PROVE ByteInv
    OBVIOUS
  <2>1. /\ \A c \in Conn, d \in Dir : owed[c][d] = {}
        /\ \A a \in Account : batch[a] = {}
        /\ wire = {} /\ gone = {}
        /\ \A a \in Account, f \in Frame : ledger[a][f] = 0
        /\ \A f \in Frame : by[f] = None
    BY DEF Init
  <2>2. \A f \in Frame : ~InOwed(f) /\ ~InBatch(f) /\ ~OnWire(f) /\ ~InLedger(f)
    BY <2>1 DEF InOwed, InBatch, OnWire, InLedger
  <2>3. CountedOnce
    BY <2>1, <2>2 DEF CountedOnce
  <2>4. OwedIsReachable /\ ChargedToItsAccount
    BY <2>1 DEF OwedIsReachable, ChargedToItsAccount, Charged
  <2>5. Apart /\ OneRequest /\ Drained
    BY <2>1 DEF Apart, OneRequest, Drained, Dir
  <2> QED
    BY <2>3, <2>4, <2>5 DEF ByteInv, BytesRight
<1>2. SlotInv /\ ByteInv /\ [Next]_vars => ByteInv'
  BY BytesInductive
<1>3. ByteInv => BytesRight
  BY DEF ByteInv
<1> QED
  BY <1>1, <1>2, <1>3, CountersAreRight, PTL DEF Spec
===============================================================================
