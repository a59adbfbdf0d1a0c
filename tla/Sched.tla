------------------------------- MODULE Sched --------------------------------
(***************************************************************************)
(* Processes and scheduling: sched.c, the process system calls of kernel.c *)
(* and the timer handler.                                                  *)
(*                                                                         *)
(* schedule() is defined twice, in kernel.c and in sched.c, with different *)
(* bodies. The variable linked says which one is in the image; Init leaves *)
(* the choice open, so every property below is about both.                 *)
(*                                                                         *)
(* A system call or an interrupt handler is one step: every IDT entry is   *)
(* an interrupt gate, so the handlers start with interrupts off.           *)
(***************************************************************************)
EXTENDS Mm

CONSTANTS
  MAX_PROCESSES,  \* slots of the process table (64 in the code)
  Timeslice       \* ticks a process may run (10 in the code)

ASSUME SchedAssumption ==
  /\ MAX_PROCESSES \in Nat \ {0}
  /\ Timeslice \in Nat \ {0}
  /\ ReservedPages + 1 < PhysPages      \* kernel_main's create_process succeeds

Slot    == 0 .. MAX_PROCESSES - 1
NoSlot  == -1                           \* the null struct process pointer
InitPid == 0

State == {"FREE", "READY", "RUNNING", "BLOCKED", "ZOMBIE"}

\* Values of a signal handler: SIG_DFL (0), SIG_IGN (1), a user function.
Handler == {"DFL", "IGN", "user"}

VARIABLES
  linked,        \* "kernel.c" or "sched.c": which schedule() is linked
  state,         \* processes[i].state
  ticks,         \* processes[i].ticks_remaining
  next,          \* processes[i].next
  page_dir,      \* processes[i].page_dir
  regs,          \* processes[i].regs
  handler,       \* processes[i].signal_handlers[sig], sig an ordinary signal
  blocked,       \* processes[i].blocked_signals has sig
  current,       \* current_process
  page_bitmap

vars == <<linked, state, ticks, next, page_dir, regs, handler, blocked,
          current, page_bitmap>>

-----------------------------------------------------------------------------
(***************************************************************************)
(* schedule(). The ring is walked along next; Walk[k] is the process after *)
(* k + 1 hops from the current one.                                        *)
(***************************************************************************)
Walk(nx, cur) ==
  CHOOSE w \in [0 .. MAX_PROCESSES -> Slot] :
    /\ w[0] = nx[cur]
    /\ \A k \in 1 .. MAX_PROCESSES : w[k] = nx[w[k - 1]]

\* The hop at which the walk stops: a READY process, or the start again.
Stops(st, w, cur, k) == st[w[k]] = "READY" \/ (k > 0 /\ w[k] = cur)

Stop(st, w, cur) ==
  IF \E k \in DOMAIN w : Stops(st, w, cur, k)
    THEN w[CHOOSE k \in DOMAIN w : /\ Stops(st, w, cur, k)
                                   /\ \A j \in 0 .. k - 1 : ~ Stops(st, w, cur, j)]
    ELSE w[MAX_PROCESSES]

\* kernel.c: the process found runs; if none is ready the current one is made
\* RUNNING again, whatever its state is.
ScheduleKernel(st, tk, found, cur) ==
  LET p == IF st[found] = "READY" THEN found ELSE cur
  IN  [state |-> [st EXCEPT ![p] = "RUNNING"],
       ticks |-> [tk EXCEPT ![p] = Timeslice],
       current |-> p]

\* sched.c: if a ready process was found the current one is made READY,
\* whatever its state is; if none was, a RUNNING process goes on and for any
\* other nothing is done.
ScheduleSched(st, tk, found, cur) ==
  IF st[found] = "READY"
    THEN [state |-> [st EXCEPT ![cur] = "READY", ![found] = "RUNNING"],
          ticks |-> [tk EXCEPT ![found] = Timeslice],
          current |-> found]
    ELSE [state |-> st,
          ticks |-> IF st[cur] = "RUNNING" THEN [tk EXCEPT ![cur] = Timeslice] ELSE tk,
          current |-> cur]

schedule(st, tk) ==
  LET found == Stop(st, Walk(next, current), current)
  IN  IF linked = "kernel.c" THEN ScheduleKernel(st, tk, found, current)
                             ELSE ScheduleSched(st, tk, found, current)

Apply(s) == state' = s.state /\ ticks' = s.ticks /\ current' = s.current

-----------------------------------------------------------------------------
(***************************************************************************)
(* create_process: the first FREE slot is marked READY before the two      *)
(* pages it needs are asked for, and stays so when one is refused.         *)
(***************************************************************************)
\* Mutant: a zombie's slot is taken too.
FreeSlots_zombies == {i \in Slot : state[i] \in {"FREE", "ZOMBIE"}}

FreeSlots == {i \in Slot : state[i] = "FREE"}

\* Mutant: the page directory is not given back when there is no page for the
\* registers, and the slot is handed out nevertheless.
create_process_unchecked ==
  LET i  == Min(FreeSlots)
      r1 == get_free_page(page_bitmap)
      r2 == get_free_page(r1.bitmap)
  IN  [slot |-> i, ok |-> TRUE, page_dir |-> r1.page, regs |-> r1.page,
       next |-> i, bitmap |-> r1.bitmap]

create_process ==
  LET i  == Min(FreeSlots)
      r1 == get_free_page(page_bitmap)      \* page directory
      r2 == get_free_page(r1.bitmap)        \* saved registers
  IN  IF r1.page = NULL
        THEN [slot |-> i, ok |-> FALSE, page_dir |-> NULL, regs |-> NULL,
              next |-> NoSlot, bitmap |-> r1.bitmap]
      ELSE IF r2.page = NULL
        THEN [slot |-> i, ok |-> FALSE, page_dir |-> r1.page, regs |-> NULL,
              next |-> NoSlot, bitmap |-> free_page(r2.bitmap, r1.page, 0)]
      ELSE   [slot |-> i, ok |-> TRUE, page_dir |-> r1.page, regs |-> r2.page,
              next |-> i, bitmap |-> r2.bitmap]

(***************************************************************************)
(* sys_fork, sys_vfork and sys_clone: copy_process. The child takes over   *)
(* the parent's page directory pointer, and its own is forgotten. Nothing  *)
(* links the child into the parent's ring.                                 *)
(***************************************************************************)
\* Mutant: the child starts as a running process.
ChildState_running == "RUNNING"

ChildState == "READY"

sys_fork ==
  /\ FreeSlots # {}
  /\ LET r == create_process
         i == r.slot IN
     /\ state' = [state EXCEPT ![i] = ChildState]
     /\ ticks' = [ticks EXCEPT ![i] = IF r.ok THEN ticks[current] ELSE Timeslice]
     /\ next' = [next EXCEPT ![i] = r.next]
     /\ page_dir' = [page_dir EXCEPT ![i] = IF r.ok THEN page_dir[current] ELSE r.page_dir]
     /\ regs' = [regs EXCEPT ![i] = r.regs]
     /\ handler' = [handler EXCEPT ![i] = IF r.ok THEN handler[current] ELSE "DFL"]
     /\ blocked' = [blocked EXCEPT ![i] = r.ok /\ blocked[current]]
     /\ page_bitmap' = r.bitmap
        /\ UNCHANGED <<linked, current>>

Unchanging == UNCHANGED <<linked, next, page_dir, regs, page_bitmap>>

\* sys_exit and sys_exit_group.
sys_exit ==
  /\ Apply(schedule([state EXCEPT ![current] = "ZOMBIE"], ticks))
  /\ Unchanging /\ UNCHANGED <<handler, blocked>>

sys_sched_yield ==
  /\ Apply(schedule([state EXCEPT ![current] = "READY"], ticks))
  /\ Unchanging /\ UNCHANGED <<handler, blocked>>

\* schedule() returns to the caller when the process that goes on is the one
\* that called: pause is then over.
sys_pause ==
  /\ Apply(schedule([state EXCEPT ![current] = "BLOCKED"], ticks))
  /\ Unchanging /\ UNCHANGED <<handler, blocked>>

\* The mask given holds while the process is suspended; once schedule() is
\* back the old mask goes into whichever process is current then.
sys_rt_sigsuspend(mask) ==
  LET s   == schedule([state EXCEPT ![current] = "BLOCKED"], ticks)
      old == blocked[current] IN
  /\ Apply(s)
  /\ blocked' = [blocked EXCEPT ![current] = mask, ![s.current] = old]
  /\ Unchanging /\ UNCHANGED handler

sys_rt_sigaction(h) ==
  /\ handler' = [handler EXCEPT ![current] = h]
  /\ Unchanging /\ UNCHANGED <<state, ticks, current, blocked>>

sys_rt_sigprocmask(b) ==
  /\ blocked' = [blocked EXCEPT ![current] = b]
  /\ Unchanging /\ UNCHANGED <<state, ticks, current, handler>>

(***************************************************************************)
(* sys_kill (tkill, tgkill, rt_sigqueueinfo): pid 0 is refused. An         *)
(* ordinary signal looks at the handlers and the mask of the sender, and   *)
(* the branch for SIG_DFL lies inside the test that the handler is not 0.  *)
(***************************************************************************)
Terminates ==
  /\ ~ blocked[current]
  /\ handler[current] # "DFL" /\ handler[current] # "IGN"
  /\ handler[current] = "DFL"

sys_kill(pid, sig) ==
  /\ pid > 0
  /\ state[pid] # "FREE"
  /\ state' = IF sig = "KILL" \/ (sig = "ordinary" /\ Terminates)
                THEN [state EXCEPT ![pid] = "ZOMBIE"]
                ELSE state
  /\ Unchanging /\ UNCHANGED <<ticks, current, handler, blocked>>

(***************************************************************************)
(* The timer: timer_interrupt_handler of kernel.c, timer_handler of        *)
(* timer.c.                                                                *)
(***************************************************************************)
\* Mutant: ticks are not counted for a process that is not RUNNING.
timer_handler_skips_blocked ==
  LET tk == [ticks EXCEPT ![current] = @ - 1] IN
  /\ state[current] = "RUNNING"
  /\ IF tk[current] <= 0
       THEN Apply(schedule([state EXCEPT ![current] = "READY"], tk))
       ELSE ticks' = tk /\ UNCHANGED <<state, current>>
  /\ Unchanging /\ UNCHANGED <<handler, blocked>>

timer_handler ==
  LET tk == [ticks EXCEPT ![current] = @ - 1] IN
  /\ IF tk[current] <= 0
       THEN Apply(schedule([state EXCEPT ![current] = "READY"], tk))
       ELSE ticks' = tk /\ UNCHANGED <<state, current>>
  /\ Unchanging /\ UNCHANGED <<handler, blocked>>

-----------------------------------------------------------------------------
\* After kernel_main has made init the only member of the ring and run sti. The
\* driver of the network card, if there is one, took its pages before init did.
\* The statement that sets init's state is cut off in the source; st is what it
\* may have been: READY, as create_process left it, or RUNNING.
Booted(card, st) ==
  LET pd == ReservedPages + card
      rg == ReservedPages + card + 1
  IN
  /\ linked \in {"kernel.c", "sched.c"}
  /\ state    = [i \in Slot |-> IF i = InitPid THEN st ELSE "FREE"]
  /\ ticks    = [i \in Slot |-> IF i = InitPid THEN Timeslice ELSE 0]
  /\ next     = [i \in Slot |-> IF i = InitPid THEN i ELSE NoSlot]
  /\ page_dir = [i \in Slot |-> IF i = InitPid THEN pd ELSE NULL]
  /\ regs     = [i \in Slot |-> IF i = InitPid THEN rg ELSE NULL]
  /\ handler  = [i \in Slot |-> "DFL"]
  /\ blocked  = [i \in Slot |-> FALSE]
  /\ current  = InitPid
  /\ page_bitmap = mm_init \cup ReservedPages .. rg

Init ==
  \E card \in 0 .. PhysPages - ReservedPages - 2, st \in {"READY", "RUNNING"} :
    Booted(card, st)

Next ==
  \/ timer_handler
  \/ sys_fork
  \/ sys_exit
  \/ sys_sched_yield
  \/ sys_pause
  \/ \E h \in Handler : sys_rt_sigaction(h)
  \/ \E b \in BOOLEAN : sys_rt_sigprocmask(b) \/ sys_rt_sigsuspend(b)
  \/ \E pid \in Slot, sig \in {"KILL", "none", "ordinary"} : sys_kill(pid, sig)

Spec == Init /\ [][Next]_vars

\* The PIT raises the timer interrupt for ever (timer_init) and no handler
\* leaves interrupts off for good.
FairSpec == Spec /\ WF_vars(timer_handler)

-----------------------------------------------------------------------------
(***************************************************************************)
(* Properties                                                              *)
(***************************************************************************)

\* The fields of the process table hold values of their types; the clock of
\* the current process is within its time slice.
TypeOK ==
  /\ linked \in {"kernel.c", "sched.c"}
  /\ state \in [Slot -> State]
  /\ ticks \in [Slot -> 0 .. Timeslice]
  /\ next \in [Slot -> Slot \cup {NoSlot}]
  /\ page_dir \in [Slot -> Pages]
  /\ regs \in [Slot -> Pages]
  /\ handler \in [Slot -> Handler]
  /\ blocked \in [Slot -> BOOLEAN]
  /\ current \in Slot
  /\ page_bitmap \subseteq Pages

\* Preemption cannot be lost: between steps the running process always has at
\* least one tick left, so the timer reaches zero and calls schedule() again,
\* also after exit, pause and yield in both versions of schedule().
PreemptionArmed == ticks[current] \in 1 .. Timeslice

\* No process but the current one is ever RUNNING, whichever schedule() is
\* linked and although neither looks at the state it leaves behind.
OneRunning == \A i \in Slot : state[i] = "RUNNING" => i = current

\* What schedule() may switch to is a process that was created completely:
\* every slot with saved registers has them in a page of its own that is
\* marked used, shares init's page directory (copy_process), and points to
\* itself; a slot whose creation failed for want of memory has no registers
\* and no successor, and the current process is not such a slot.
CompleteOrUnlinked ==
  /\ regs[current] # NULL
  /\ \A i \in Slot :
       IF regs[i] = NULL
         THEN next[i] = NoSlot
         ELSE /\ next[i] = i
              /\ page_dir[i] = page_dir[InitPid]
              /\ {regs[i], page_dir[i]} \subseteq page_bitmap
              /\ regs[i] # page_dir[i]
              /\ \A j \in Slot \ {i} : regs[j] # regs[i]

\* A killed process stays a zombie: no step makes it ready or running again,
\* and its slot is never given to a new process. (init is left out: it cannot
\* be killed, and the timer brings it back when it exits.)
ZombieFinal ==
  [][\A i \in Slot \ {InitPid} : state[i] = "ZOMBIE" => state'[i] = "ZOMBIE"]_vars

\* Whatever the process does - exit, pause, yield - the timer gets it RUNNING
\* again: the machine never stays with a current process that is not RUNNING.
AlwaysRunsAgain == []<>(state[current] = "RUNNING")

\* sched.c:266 says of schedule() that it finds the next ready process: a
\* process made READY by fork gets to run, unless it is killed first.
ReadyProcessRuns ==
  \A i \in Slot : state[i] = "READY" ~> (current = i \/ state[i] = "ZOMBIE")

=============================================================================
