---------------------------- MODULE SchedProofs -----------------------------
(***************************************************************************)
(* Theorems about processes and scheduling, for every size of the process  *)
(* table, every time slice and every amount of memory.                     *)
(***************************************************************************)
EXTENDS Sched, WellFoundedInduction, TLAPS

(***************************************************************************)
(* The inductive invariant. Beside the properties themselves it says that  *)
(* init is the current process for ever: fork does not link a child into   *)
(* the ring, so schedule() always comes back to the process it left.       *)
(***************************************************************************)
SchedInv ==
  /\ TypeOK
  /\ PreemptionArmed
  /\ OneRunning
  /\ CompleteOrUnlinked
  /\ Reserved \subseteq page_bitmap
  /\ current = InitPid
  /\ state[InitPid] # "FREE"

-----------------------------------------------------------------------------
LEMMA LeastNat ==
  ASSUME NEW S, S \subseteq Nat, S # {}
  PROVE  \E x \in S : \A y \in S : x <= y
<1>1. \E x \in S : \A y \in S : ~ (<<y, x>> \in OpToRel(<, Nat))
  BY NatLessThanWellFounded, WFMin, Zenon
<1>2. PICK x \in S : \A y \in S : ~ (<<y, x>> \in OpToRel(<, Nat))
  BY <1>1
<1>3. \A y \in S : y < x => <<y, x>> \in OpToRel(<, Nat)
  BY Zenon DEF OpToRel
<1>4. \A y \in S : ~ (y < x)
  BY <1>2, <1>3, Zenon
<1>5. QED
  BY <1>4

LEMMA MinInSet ==
  ASSUME NEW S, S \subseteq Nat, S # {}
  PROVE  Min(S) \in S
  BY LeastNat DEF Min

(***************************************************************************)
(* On a ring of one process the walk of schedule() never leaves it.        *)
(***************************************************************************)
LEMMA WalkStays ==
  ASSUME NEW nx, NEW cur \in Slot, nx[cur] = cur
  PROVE  Walk(nx, cur) = [k \in 0 .. MAX_PROCESSES |-> cur]
<1> DEFINE w0 == [k \in 0 .. MAX_PROCESSES |-> cur]
           P(w) == /\ w[0] = nx[cur]
                   /\ \A k \in 1 .. MAX_PROCESSES : w[k] = nx[w[k - 1]]
<1>1. w0 \in [0 .. MAX_PROCESSES -> Slot] /\ P(w0)
  BY SchedAssumption
<1>2. ASSUME NEW w \in [0 .. MAX_PROCESSES -> Slot], P(w)
      PROVE  w = w0
  <2> DEFINE Bad == {k \in 0 .. MAX_PROCESSES : w[k] # cur}
  <2>1. Bad = {}
    <3>1. SUFFICES ASSUME Bad # {} PROVE FALSE
      OBVIOUS
    <3>2. Bad \subseteq Nat
      BY SchedAssumption
    <3>3. PICK k \in Bad : \A y \in Bad : k <= y
      BY <3>1, <3>2, LeastNat
    <3>4. k # 0
      BY <1>2, <3>3
    <3>5. k - 1 \in 0 .. MAX_PROCESSES /\ k \in 1 .. MAX_PROCESSES /\ k - 1 \notin Bad
      BY <3>3, <3>4, SchedAssumption
    <3>6. w[k] = nx[w[k - 1]] /\ w[k - 1] = cur
      BY <1>2, <3>5
    <3>7. QED
      BY <3>3, <3>6
  <2>2. \A k \in 0 .. MAX_PROCESSES : w[k] = cur
    BY <2>1
  <2>3. QED
    BY <2>2
<1>3. Walk(nx, cur) \in [0 .. MAX_PROCESSES -> Slot] /\ P(Walk(nx, cur))
  BY <1>1 DEF Walk
<1>4. QED
  BY <1>2, <1>3

LEMMA StopStays ==
  ASSUME NEW st, NEW cur \in Slot
  PROVE  Stop(st, [k \in 0 .. MAX_PROCESSES |-> cur], cur) = cur
<1> DEFINE w == [k \in 0 .. MAX_PROCESSES |-> cur]
           Q(k) == Stops(st, w, cur, k) /\ \A j \in 0 .. k - 1 : ~ Stops(st, w, cur, j)
           S == {k \in 0 .. MAX_PROCESSES : Stops(st, w, cur, k)}
<1>0. DOMAIN w = 0 .. MAX_PROCESSES /\ MAX_PROCESSES \in 0 .. MAX_PROCESSES
  BY SchedAssumption
<1>1. CASE S = {}
  BY <1>0, <1>1 DEF Stop
<1>2. CASE S # {}
  <2>1. S \subseteq Nat
    BY SchedAssumption
  <2>2. PICK k \in S : \A y \in S : k <= y
    BY <1>2, <2>1, LeastNat
  <2>3. k \in DOMAIN w /\ Q(k)
    <3>1. \A j \in 0 .. k - 1 : j \in 0 .. MAX_PROCESSES /\ j < k
      BY <2>2, SchedAssumption
    <3>2. QED
      BY <1>0, <2>2, <3>1
  <2>4. (CHOOSE x \in DOMAIN w : Q(x)) \in DOMAIN w
    BY <2>3
  <2>5. Stop(st, w, cur) = w[CHOOSE x \in DOMAIN w : Q(x)]
    BY <2>3 DEF Stop
  <2>6. QED
    BY <1>0, <2>4, <2>5
<1>3. QED
  BY <1>1, <1>2

(***************************************************************************)
(* What schedule() does when the current process is alone on its ring: it  *)
(* touches the state and the clock of that process only.                   *)
(***************************************************************************)
LEMMA ScheduleAlone ==
  ASSUME SchedInv,
         NEW st \in [Slot -> State], NEW tk \in [Slot -> 0 .. Timeslice],
         st[current] # "FREE",
         st[current] = "READY" \/ tk[current] \in 1 .. Timeslice
  PROVE  LET s == schedule(st, tk) IN
         /\ s.current = current
         /\ s.state \in [Slot -> State]
         /\ s.ticks \in [Slot -> 0 .. Timeslice]
         /\ s.state[current] # "FREE"
         /\ s.ticks[current] \in 1 .. Timeslice
         /\ \A i \in Slot \ {current} : s.state[i] = st[i]
<1>1. current \in Slot /\ next[current] = current
  BY DEF SchedInv, TypeOK, CompleteOrUnlinked
<1>2. Stop(st, Walk(next, current), current) = current
  BY <1>1, WalkStays, StopStays
<1>3. Timeslice \in 1 .. Timeslice /\ Timeslice \in 0 .. Timeslice
  BY SchedAssumption
<1>4. "RUNNING" \in State /\ "READY" \in State
  BY DEF State
<1>5. CASE linked = "kernel.c"
  BY <1>1, <1>2, <1>3, <1>4, <1>5 DEF schedule, ScheduleKernel
<1>6. CASE linked # "kernel.c"
  BY <1>1, <1>2, <1>3, <1>4, <1>6 DEF schedule, ScheduleSched
<1>7. QED
  BY <1>5, <1>6

(***************************************************************************)
(* A step that leaves current_process, memory and the links alone and      *)
(* changes only the state and clock of the current process.                *)
(***************************************************************************)
LEMMA LocalStep ==
  ASSUME SchedInv, Unchanging, current' = current,
         handler' \in [Slot -> Handler], blocked' \in [Slot -> BOOLEAN],
         state' \in [Slot -> State], ticks' \in [Slot -> 0 .. Timeslice],
         state'[current] # "FREE",
         ticks'[current] \in 1 .. Timeslice,
         \A i \in Slot \ {current} : state'[i] = "RUNNING" => state[i] = "RUNNING"
  PROVE  SchedInv'
<1>1. TypeOK'
  BY DEF SchedInv, TypeOK, Unchanging
<1>2. OneRunning'
  BY DEF SchedInv, OneRunning
<1>3. PreemptionArmed'
  BY DEF PreemptionArmed
<1>4. CompleteOrUnlinked'
  BY DEF SchedInv, CompleteOrUnlinked, Unchanging
<1>5. QED
  BY <1>1, <1>2, <1>3, <1>4 DEF SchedInv, Unchanging

LEMMA ScheduledStep ==
  ASSUME SchedInv, Unchanging,
         handler' \in [Slot -> Handler], blocked' \in [Slot -> BOOLEAN],
         NEW x \in State \ {"FREE"}, NEW tk \in [Slot -> 0 .. Timeslice],
         x = "READY" \/ tk[current] \in 1 .. Timeslice,
         Apply(schedule([state EXCEPT ![current] = x], tk))
  PROVE  /\ SchedInv'
         /\ \A i \in Slot \ {current} : state'[i] = state[i]
<1> DEFINE st == [state EXCEPT ![current] = x]
           s  == schedule(st, tk)
<1>1. /\ st \in [Slot -> State] /\ st[current] = x /\ current \in Slot
      /\ \A i \in Slot \ {current} : st[i] = state[i]
  BY DEF SchedInv, TypeOK
<1>2. /\ s.current = current
      /\ s.state \in [Slot -> State]
      /\ s.ticks \in [Slot -> 0 .. Timeslice]
      /\ s.state[current] # "FREE"
      /\ s.ticks[current] \in 1 .. Timeslice
      /\ \A i \in Slot \ {current} : s.state[i] = st[i]
  <2> HIDE DEF st
  <2>1. QED
    BY <1>1, ScheduleAlone
<1>3. state' = s.state /\ ticks' = s.ticks /\ current' = s.current
  BY DEF Apply
<1> HIDE DEF st, s
<1>4. QED
  BY <1>1, <1>2, <1>3, LocalStep

-----------------------------------------------------------------------------
LEMMA GetPage ==
  ASSUME NEW B, B \subseteq Pages, Reserved \subseteq B
  PROVE  LET r == get_free_page(B) IN
         \/ r.page = NULL /\ r.bitmap = B
         \/ /\ r.page \in Pages \ B
            /\ r.page # NULL
            /\ r.page \notin Reserved
            /\ r.bitmap = B \cup {r.page}
<1>1. CASE FreePages(B) = {}
  BY <1>1 DEF get_free_page
<1>2. CASE FreePages(B) # {}
  <2>1. Min(FreePages(B)) \in FreePages(B)
    BY <1>2, MinInSet, MmAssumption DEF FreePages, Pages
  <2>2. NULL \in Reserved
    BY MmAssumption DEF NULL, Reserved
  <2>3. QED
    BY <1>2, <2>1, <2>2 DEF get_free_page, FreePages, is_page_used
<1>3. QED
  BY <1>1, <1>2

(***************************************************************************)
(* create_process: what the new slot's fields are, on success and on       *)
(* either of the two failures.                                             *)
(***************************************************************************)
LEMMA CreateProcessResult ==
  ASSUME SchedInv, FreeSlots # {}
  PROVE  LET r == create_process IN
         /\ r.slot \in Slot /\ state[r.slot] = "FREE"
         /\ r.ok \in BOOLEAN
         /\ r.page_dir \in Pages /\ r.regs \in Pages
         /\ r.bitmap \subseteq Pages /\ page_bitmap \subseteq r.bitmap
         /\ r.ok => /\ r.next = r.slot /\ r.regs # NULL
                    /\ r.regs \in r.bitmap \ page_bitmap
         /\ ~ r.ok => r.next = NoSlot /\ r.regs = NULL
<1> DEFINE i  == Min(FreeSlots)
           r1 == get_free_page(page_bitmap)
           r2 == get_free_page(r1.bitmap)
<1>1. i \in Slot /\ state[i] = "FREE"
  BY MinInSet, SchedAssumption DEF FreeSlots, Slot
<1>2. page_bitmap \subseteq Pages /\ Reserved \subseteq page_bitmap /\ NULL \in Pages
  BY MmAssumption DEF SchedInv, TypeOK, NULL, Pages
<1>3. \/ r1.page = NULL /\ r1.bitmap = page_bitmap
      \/ /\ r1.page \in Pages \ page_bitmap /\ r1.page # NULL
         /\ r1.page \notin Reserved
         /\ r1.bitmap = page_bitmap \cup {r1.page}
  BY <1>2, GetPage
<1>4. r1.bitmap \subseteq Pages /\ Reserved \subseteq r1.bitmap
  BY <1>2, <1>3
<1>5. \/ r2.page = NULL /\ r2.bitmap = r1.bitmap
      \/ /\ r2.page \in Pages \ r1.bitmap /\ r2.page # NULL
         /\ r2.bitmap = r1.bitmap \cup {r2.page}
  <2> HIDE DEF r1
  <2>1. QED
    BY <1>4, GetPage
<1>6. CASE r1.page = NULL
  <2>1. create_process = [slot |-> i, ok |-> FALSE, page_dir |-> NULL, regs |-> NULL,
                          next |-> NoSlot, bitmap |-> r1.bitmap]
    BY <1>6 DEF create_process
  <2> HIDE DEF r1, r2, i
  <2>2. QED
    BY <1>1, <1>2, <1>3, <1>6, <2>1
<1>7. CASE r1.page # NULL /\ r2.page = NULL
  <2>1. create_process = [slot |-> i, ok |-> FALSE, page_dir |-> r1.page, regs |-> NULL,
                          next |-> NoSlot, bitmap |-> free_page(r2.bitmap, r1.page, 0)]
    BY <1>7 DEF create_process
  <2>2. free_page(r2.bitmap, r1.page, 0) = page_bitmap
    <3>1. r1.page \in Pages \ page_bitmap /\ r2.bitmap = page_bitmap \cup {r1.page}
      BY <1>3, <1>5, <1>7
    <3>2. ~ (r1.page < ReservedPages) /\ ~ (r1.page >= PhysPages)
      BY <1>3, <1>7, MmAssumption DEF Pages, Reserved
    <3> HIDE DEF r1, r2
    <3>3. QED
      BY <3>1, <3>2 DEF free_page
  <2> HIDE DEF r1, r2, i
  <2>3. QED
    BY <1>1, <1>2, <1>3, <1>7, <2>1, <2>2
<1>8. CASE r1.page # NULL /\ r2.page # NULL
  <2>1. create_process = [slot |-> i, ok |-> TRUE, page_dir |-> r1.page, regs |-> r2.page,
                          next |-> i, bitmap |-> r2.bitmap]
    BY <1>8 DEF create_process
  <2> HIDE DEF r1, r2, i
  <2>2. QED
    BY <1>1, <1>2, <1>3, <1>4, <1>5, <1>8, <2>1
<1>9. QED
  BY <1>6, <1>7, <1>8

LEMMA ForkStep ==
  ASSUME SchedInv, sys_fork
  PROVE  SchedInv' /\ \A i \in Slot : state[i] # "FREE" => state'[i] = state[i]
<1> DEFINE r == create_process
           i == r.slot
<1>0. FreeSlots # {}
  BY DEF sys_fork
<1>1. /\ i \in Slot /\ state[i] = "FREE"
      /\ r.ok \in BOOLEAN
      /\ r.page_dir \in Pages /\ r.regs \in Pages
      /\ r.bitmap \subseteq Pages /\ page_bitmap \subseteq r.bitmap
      /\ r.ok => /\ r.next = i /\ r.regs # NULL
                 /\ r.regs \in r.bitmap \ page_bitmap
      /\ ~ r.ok => r.next = NoSlot /\ r.regs = NULL
  BY <1>0, CreateProcessResult
<1>2. /\ state' = [state EXCEPT ![i] = "READY"]
      /\ ticks' = [ticks EXCEPT ![i] = IF r.ok THEN ticks[current] ELSE Timeslice]
      /\ next' = [next EXCEPT ![i] = r.next]
      /\ page_dir' = [page_dir EXCEPT ![i] = IF r.ok THEN page_dir[current] ELSE r.page_dir]
      /\ regs' = [regs EXCEPT ![i] = r.regs]
      /\ handler' = [handler EXCEPT ![i] = IF r.ok THEN handler[current] ELSE "DFL"]
      /\ blocked' = [blocked EXCEPT ![i] = r.ok /\ blocked[current]]
      /\ page_bitmap' = r.bitmap
      /\ linked' = linked /\ current' = current
  BY DEF sys_fork, ChildState
<1> HIDE DEF r
<1>3. i # InitPid /\ current = InitPid /\ InitPid \in Slot
  BY <1>1 DEF SchedInv, TypeOK
<1>4. TypeOK'
  <2>1. state' \in [Slot -> State] /\ ticks' \in [Slot -> 0 .. Timeslice]
    BY <1>1, <1>2, <1>3, SchedAssumption DEF SchedInv, TypeOK, State
  <2>2. next' \in [Slot -> Slot \cup {NoSlot}]
    BY <1>1, <1>2 DEF SchedInv, TypeOK
  <2>3. page_dir' \in [Slot -> Pages] /\ regs' \in [Slot -> Pages]
    BY <1>1, <1>2, <1>3 DEF SchedInv, TypeOK
  <2>4. handler' \in [Slot -> Handler]
    BY <1>1, <1>2, <1>3 DEF SchedInv, TypeOK, Handler
  <2>5. blocked' \in [Slot -> BOOLEAN]
    BY <1>1, <1>2, <1>3, Zenon DEF SchedInv, TypeOK
  <2>6. QED
    BY <1>1, <1>2, <1>3, <2>1, <2>2, <2>3, <2>4, <2>5 DEF SchedInv, TypeOK
<1>5. OneRunning' /\ PreemptionArmed'
  BY <1>1, <1>2, <1>3 DEF SchedInv, OneRunning, PreemptionArmed, TypeOK
<1>6. CompleteOrUnlinked'
  <2>1. \A j \in Slot \ {i} : /\ regs'[j] = regs[j] /\ next'[j] = next[j]
                              /\ page_dir'[j] = page_dir[j]
    BY <1>1, <1>2 DEF SchedInv, TypeOK
  <2>2. /\ regs'[i] = r.regs /\ next'[i] = r.next
        /\ r.ok => page_dir'[i] = page_dir[InitPid]
    BY <1>1, <1>2, <1>3 DEF SchedInv, TypeOK
  <2>3. /\ regs[InitPid] # NULL
        /\ page_dir[InitPid] \in page_bitmap
    BY <1>3 DEF SchedInv, CompleteOrUnlinked
  <2>4. \A j \in Slot : regs[j] # NULL =>
          /\ next[j] = j /\ page_dir[j] = page_dir[InitPid]
          /\ regs[j] \in page_bitmap /\ regs[j] # page_dir[j]
          /\ \A k \in Slot \ {j} : regs[k] # regs[j]
    BY DEF SchedInv, CompleteOrUnlinked
  <2>5. \A j \in Slot : regs[j] = NULL => next[j] = NoSlot
    BY DEF SchedInv, CompleteOrUnlinked
  <2>6. ASSUME NEW j \in Slot, regs'[j] = NULL
        PROVE  next'[j] = NoSlot
    BY <1>1, <2>1, <2>2, <2>5, <2>6
  <2>7. ASSUME NEW j \in Slot, regs'[j] # NULL
        PROVE  /\ next'[j] = j
               /\ page_dir'[j] = page_dir'[InitPid]
               /\ {regs'[j], page_dir'[j]} \subseteq page_bitmap'
               /\ regs'[j] # page_dir'[j]
               /\ \A k \in Slot \ {j} : regs'[k] # regs'[j]
    <3>1. page_dir'[InitPid] = page_dir[InitPid]
      BY <1>3, <2>1
    <3>2. CASE j = i
      <4>1. r.ok /\ r.regs \notin page_bitmap /\ r.regs \in page_bitmap' /\ r.next = i
        BY <1>1, <1>2, <2>2, <2>7, <3>2
      <4>2. \A k \in Slot \ {i} : regs'[k] # r.regs
        BY <1>1, <2>1, <2>4, <2>7, <2>2, <3>2, <4>1
      <4>3. QED
        BY <1>1, <1>2, <2>2, <2>3, <3>1, <3>2, <4>1, <4>2
    <3>3. CASE j # i
      <4>1. regs[j] # NULL /\ regs'[j] = regs[j]
        BY <2>1, <2>7, <3>3
      <4>2. \A k \in Slot \ {j} : regs'[k] # regs'[j]
        <5>1. regs'[i] # regs'[j]
          BY <1>1, <2>2, <2>4, <4>1
        <5>2. QED
          BY <2>1, <2>4, <4>1, <5>1
      <4>3. QED
        BY <1>1, <1>2, <2>1, <2>3, <2>4, <3>1, <3>3, <4>1, <4>2
    <3>4. QED
      BY <3>2, <3>3
  <2>8. regs'[current'] # NULL
    BY <1>2, <1>3, <2>1, <2>3
  <2>9. QED
    BY <2>6, <2>7, <2>8 DEF CompleteOrUnlinked
<1>7. Reserved \subseteq page_bitmap' /\ state'[InitPid] # "FREE"
  BY <1>1, <1>2, <1>3 DEF SchedInv, TypeOK
<1>8. \A j \in Slot : state[j] # "FREE" => state'[j] = state[j]
  BY <1>1, <1>2 DEF SchedInv, TypeOK
<1>9. QED
  BY <1>2, <1>3, <1>4, <1>5, <1>6, <1>7, <1>8 DEF SchedInv

-----------------------------------------------------------------------------
LEMMA SchedInvInit == Init => SchedInv
<1> SUFFICES ASSUME Init PROVE SchedInv
  OBVIOUS
<1>0. PICK card \in 0 .. PhysPages - ReservedPages - 2, st \in {"READY", "RUNNING"} :
        Booted(card, st)
  BY DEF Init
<1> DEFINE pd == ReservedPages + card
           rg == ReservedPages + card + 1
<1>1. InitPid \in Slot /\ Timeslice \in 0 .. Timeslice /\ 0 \in 0 .. Timeslice
      /\ Timeslice \in 1 .. Timeslice
  BY SchedAssumption DEF InitPid, Slot
<1>2. /\ pd \in Pages /\ rg \in Pages /\ NULL \in Pages
      /\ pd # NULL /\ rg # NULL /\ pd # rg
      /\ Reserved \subseteq Pages /\ ReservedPages .. rg \subseteq Pages
      /\ {pd, rg} \subseteq ReservedPages .. rg
  BY MmAssumption, SchedAssumption DEF Pages, Reserved, NULL
<1>3. TypeOK
  <2> HIDE DEF pd, rg
  <2>1. QED
    BY <1>0, <1>1, <1>2, Zenon DEF Booted, TypeOK, State, Handler, mm_init, pd, rg
<1>4. PreemptionArmed /\ OneRunning
  BY <1>0, <1>1 DEF Booted, PreemptionArmed, OneRunning
<1>5. CompleteOrUnlinked
  BY <1>0, <1>1, <1>2 DEF Booted, CompleteOrUnlinked
<1>6. QED
  BY <1>0, <1>1, <1>3, <1>4, <1>5 DEF SchedInv, Booted, mm_init

(***************************************************************************)
(* One step keeps the invariant, and leaves a zombie other than init what  *)
(* it is.                                                                  *)
(***************************************************************************)
ZombiesKept == \A i \in Slot \ {InitPid} : state[i] = "ZOMBIE" => state'[i] = "ZOMBIE"

LEMMA SchedInvStep ==
  ASSUME SchedInv, [Next]_vars
  PROVE  SchedInv' /\ ZombiesKept
<1>0. /\ current = InitPid /\ current \in Slot
      /\ state \in [Slot -> State] /\ ticks \in [Slot -> 0 .. Timeslice]
      /\ handler \in [Slot -> Handler] /\ blocked \in [Slot -> BOOLEAN]
      /\ state[current] # "FREE" /\ ticks[current] \in 1 .. Timeslice
  BY DEF SchedInv, TypeOK, PreemptionArmed
<1>a. {"READY", "ZOMBIE", "BLOCKED"} \subseteq State \ {"FREE"}
  BY DEF State
<1>1. CASE timer_handler
  <2> DEFINE tk == [ticks EXCEPT ![current] = @ - 1]
  <2>1. tk \in [Slot -> 0 .. Timeslice] /\ tk[current] = ticks[current] - 1
    BY <1>0, SchedAssumption
  <2>2. Unchanging /\ handler' = handler /\ blocked' = blocked
    BY <1>1 DEF timer_handler
  <2>3. CASE tk[current] <= 0
    <3>1. Apply(schedule([state EXCEPT ![current] = "READY"], tk))
      BY <1>1, <2>3 DEF timer_handler
    <3> HIDE DEF tk
    <3>2. QED
      BY <1>0, <1>a, <2>1, <2>2, <3>1, ScheduledStep DEF ZombiesKept
  <2>4. CASE ~ (tk[current] <= 0)
    <3>1. ticks' = tk /\ state' = state /\ current' = current
      BY <1>1, <2>4 DEF timer_handler
    <3>2. tk[current] \in 1 .. Timeslice
      BY <1>0, <2>1, <2>4, SchedAssumption
    <3> HIDE DEF tk
    <3>3. QED
      BY <1>0, <2>1, <2>2, <3>1, <3>2, LocalStep DEF ZombiesKept
  <2>5. QED
    BY <2>3, <2>4
<1>2. CASE sys_fork
  BY <1>2, ForkStep DEF ZombiesKept
<1>3. CASE sys_exit
  BY <1>0, <1>3, <1>a, ScheduledStep DEF sys_exit, ZombiesKept
<1>4. CASE sys_sched_yield
  BY <1>0, <1>4, <1>a, ScheduledStep DEF sys_sched_yield, ZombiesKept
<1>5. CASE sys_pause
  BY <1>0, <1>5, <1>a, ScheduledStep DEF sys_pause, ZombiesKept
<1>6. ASSUME NEW h \in Handler, sys_rt_sigaction(h)
      PROVE  SchedInv' /\ ZombiesKept
  <2>1. handler' \in [Slot -> Handler]
    BY <1>0, <1>6 DEF sys_rt_sigaction
  <2>2. QED
    BY <1>0, <1>6, <2>1, LocalStep DEF sys_rt_sigaction, ZombiesKept
<1>7. ASSUME NEW b \in BOOLEAN, sys_rt_sigprocmask(b)
      PROVE  SchedInv' /\ ZombiesKept
  <2>1. blocked' \in [Slot -> BOOLEAN]
    BY <1>0, <1>7 DEF sys_rt_sigprocmask
  <2>2. QED
    BY <1>0, <1>7, <2>1, LocalStep DEF sys_rt_sigprocmask, ZombiesKept
<1>8. ASSUME NEW b \in BOOLEAN, sys_rt_sigsuspend(b)
      PROVE  SchedInv' /\ ZombiesKept
  <2> DEFINE s == schedule([state EXCEPT ![current] = "BLOCKED"], ticks)
  <2>1. /\ Apply(s) /\ Unchanging /\ handler' = handler
        /\ blocked' = [blocked EXCEPT ![current] = b, ![s.current] = blocked[current]]
    BY <1>8 DEF sys_rt_sigsuspend
  <2>2. blocked' \in [Slot -> BOOLEAN]
    <3> HIDE DEF s
    <3>1. blocked[current] \in BOOLEAN
      BY <1>0, Zenon
    <3>2. QED
      BY <1>0, <2>1, <3>1
  <2>3. QED
    BY <1>0, <1>a, <2>1, <2>2, ScheduledStep DEF ZombiesKept
<1>9. ASSUME NEW pid \in Slot, NEW sig, sys_kill(pid, sig)
      PROVE  SchedInv' /\ ZombiesKept
  <2>1. pid # current
    BY <1>0, <1>9 DEF sys_kill, InitPid
  <2>2. state' \in [Slot -> State] /\ state'[current] = state[current]
    BY <1>0, <1>9, <2>1 DEF sys_kill, State
  <2>3. \A i \in Slot : state'[i] = state[i] \/ state'[i] = "ZOMBIE"
    BY <1>0, <1>9 DEF sys_kill
  <2>4. Unchanging /\ UNCHANGED <<ticks, current, handler, blocked>>
    BY <1>9 DEF sys_kill
  <2>5. QED
    BY <1>0, <2>2, <2>3, <2>4, LocalStep DEF ZombiesKept
<1>10. CASE UNCHANGED vars
  BY <1>10 DEF vars, SchedInv, TypeOK, PreemptionArmed, OneRunning,
               CompleteOrUnlinked, ZombiesKept
<1>11. QED
  BY <1>1, <1>2, <1>3, <1>4, <1>5, <1>6, <1>7, <1>8, <1>9, <1>10 DEF Next

(***************************************************************************)
(* The process table keeps its types (sched.h).                            *)
(***************************************************************************)
THEOREM SchedTypeCorrect == Spec => []TypeOK
<1>1. SchedInv => TypeOK
  BY DEF SchedInv
<1>2. SchedInv /\ [Next]_vars => SchedInv'
  BY SchedInvStep
<1>3. QED
  BY <1>1, <1>2, SchedInvInit, PTL DEF Spec

(***************************************************************************)
(* At most one process is RUNNING, and it is the current one, with either  *)
(* schedule() linked.                                                      *)
(***************************************************************************)
THEOREM OneRunningTheorem == Spec => []OneRunning
<1>1. SchedInv => OneRunning
  BY DEF SchedInv
<1>2. SchedInv /\ [Next]_vars => SchedInv'
  BY SchedInvStep
<1>3. QED
  BY <1>1, <1>2, SchedInvInit, PTL DEF Spec

(***************************************************************************)
(* The time slice of the current process never runs out unnoticed.         *)
(***************************************************************************)
THEOREM PreemptionArmedTheorem == Spec => []PreemptionArmed
<1>1. SchedInv => PreemptionArmed
  BY DEF SchedInv
<1>2. SchedInv /\ [Next]_vars => SchedInv'
  BY SchedInvStep
<1>3. QED
  BY <1>1, <1>2, SchedInvInit, PTL DEF Spec

(***************************************************************************)
(* schedule() only ever switches to a completely created process, however  *)
(* creation runs out of memory.                                            *)
(***************************************************************************)
THEOREM CompleteOrUnlinkedTheorem == Spec => []CompleteOrUnlinked
<1>1. SchedInv => CompleteOrUnlinked
  BY DEF SchedInv
<1>2. SchedInv /\ [Next]_vars => SchedInv'
  BY SchedInvStep
<1>3. QED
  BY <1>1, <1>2, SchedInvInit, PTL DEF Spec

(***************************************************************************)
(* A killed process is never made ready again and its slot never reused.   *)
(***************************************************************************)
THEOREM ZombieFinalTheorem == Spec => ZombieFinal
<1>1. SchedInv /\ [Next]_vars => SchedInv'
  BY SchedInvStep
<1>2. SchedInv /\ [Next]_vars => [ZombiesKept]_vars
  BY SchedInvStep
<1>3. QED
  BY <1>1, <1>2, SchedInvInit, PTL DEF Spec, ZombieFinal, ZombiesKept

=============================================================================
