------------------------------- MODULE Master -------------------------------
(***************************************************************************)
(* The master process: the table of children (os/unix/ngx_process.c) and    *)
(* the loop of os/unix/ngx_process_cycle.c.  The master blocks all its      *)
(* signals except inside sigsuspend(), so a turn of the loop is cut only    *)
(* by what the children do; it is modelled in steps because spawning and    *)
(* reaping are loops with side effects of their own.                        *)
(*                                                                          *)
(* Points of the loop: "suspend", "reap" (one slot per step), "decide" (the *)
(* flags in the order the code tests them), "workers", "manager", "loader"  *)
(* (spawning), "told" (old workers are told to quit after a                 *)
(* reconfiguration), "restart", "reopen", "binary", "noaccept", "exited".   *)
(***************************************************************************)
EXTENDS Integers, Sequences, FiniteSets, FiniteSetsExt

CONSTANTS
  NWorkers,     \* ccf->worker_processes
  Helpers,      \* the cache processes configured: subset of {"manager", "loader"}
  MaxProcs,     \* NGX_MAX_PROCESSES
  NPids,        \* pids the model uses; a collected pid may be used again
  Signals,      \* the signals an administrator may send
  MaxSignals,   \* how many of them
  Faults,       \* subset of FaultKinds
  MaxFaults

FaultKinds == {"crash", "fatal", "fork", "exec", "channel", "config"}
None == 0       \* pid -1, or a channel that is closed
Invalid == -1   \* NGX_INVALID_PID as the value of ngx_new_binary
Slots == 1..MaxProcs
Pids == 1..NPids

ASSUME MasterAssumption ==
  /\ NWorkers \in Nat \ {0}
  /\ Helpers \subseteq {"manager", "loader"}
  /\ MaxProcs \in Nat /\ NPids \in Nat /\ NPids > MaxProcs
  /\ Signals \subseteq {"TERM", "QUIT", "HUP", "USR1", "USR2", "WINCH"}
  /\ MaxSignals \in Nat /\ MaxFaults \in Nat
  /\ Faults \subseteq FaultKinds

VARIABLES
  proc,    \* ngx_processes[]
  last,    \* ngx_last_process
  slot,    \* ngx_process_slot
  flags,   \* the sig_atomic_t flags that are set, and "restart"
  live, delay, sigio, newbin, noaccepting,
  pc,
  i,       \* index of the loop in ngx_reap_children()
  alive,   \* its local variable live
  ch,      \* its local variable ch: command, slot and the channel in ch.fd
  todo,    \* workers still to be spawned by ngx_start_worker_processes()
  style,   \* the respawn argument of the spawning loops
  ret,     \* the point after the spawning loops
  pending, \* signals sent to the master and not delivered yet
  child,   \* the processes: state, kind, what they were told
  view,    \* each child's own copy of the channels of the other slots
  extra,   \* how often a second set of workers was started (history)
  signals, faults

table == <<proc, last, slot>>
settings == <<live, delay, sigio, newbin, noaccepting>>
loop == <<i, alive, ch, todo, style, ret>>
kids == <<child, view>>
vars == <<table, flags, settings, pc, loop, pending, kids, extra, signals, faults>>

NoProc == [pid |-> None, exited |-> FALSE, exiting |-> FALSE, detached |-> FALSE,
           respawn |-> FALSE, just |-> FALSE, chan |-> None, kind |-> "none"]
NoChild == [state |-> "none", kind |-> "none", told |-> {}]
Quiet == [s \in Slots |-> None]

Init ==
  /\ proc = [s \in Slots |-> NoProc] /\ last = 0 /\ slot = 1
  /\ flags = {} /\ pending = {}
  /\ live = TRUE /\ delay = 0 /\ sigio = 0 /\ newbin = None /\ noaccepting = FALSE
  /\ pc = "workers" /\ todo = NWorkers /\ style = "respawn" /\ ret = "suspend"
  /\ i = 1 /\ alive = FALSE /\ ch = [command |-> "close", slot |-> 1, fd |-> None]
  /\ child = [p \in Pids |-> NoChild] /\ view = [p \in Pids |-> Quiet]
  /\ extra = 0 /\ signals = 0 /\ faults = 0

Charge(fault) == /\ fault => faults < MaxFaults
                 /\ faults' = faults + (IF fault THEN 1 ELSE 0)

Running(p) == p \in Pids /\ child[p].state = "run"
InTable == {s \in Slots : s <= last /\ proc[s].pid # None}

-----------------------------------------------------------------------------
(* Mutant: the loop over the table ends at the slot that is announced. *)
BroadcastBelow(v, msg, to, lost) ==
  LET hears == {p \in Pids : Running(p)
                             /\ \E s \in to \ lost : s < msg.slot /\ proc[s].chan = p}
  IN [p \in Pids |->
        IF p \in hears THEN [v[p] EXCEPT ![msg.slot] = msg.fd] ELSE v[p]]

(* ngx_write_channel() of ch to the slots in to; the write to the slots in  *)
(* lost fails (EAGAIN, marked TODO in the code).  A child that gets         *)
(* NGX_CMD_OPEN_CHANNEL stores the descriptor it is sent, one that gets     *)
(* NGX_CMD_CLOSE_CHANNEL forgets the slot (ngx_channel_handler()).          *)
Broadcast(v, msg, to, lost) ==
  LET hears == {p \in Pids : Running(p) /\ \E s \in to \ lost : proc[s].chan = p}
  IN [p \in Pids |->
        IF p \in hears
          THEN [v[p] EXCEPT ![msg.slot] =
                  CASE msg.command = "close" -> None
                    [] msg.command = "open" /\ msg.fd = None -> @
                    [] OTHER -> msg.fd]
          ELSE v[p]]

Lost(to, lost) == /\ lost \subseteq to
                  /\ Cardinality(lost) <= (IF "channel" \in Faults THEN 1 ELSE 0)
                  /\ Charge(lost # {})

FreePids == {p \in Pids : /\ child[p].state \in {"none", "gone"}
                          /\ \A s \in InTable : proc[s].pid # p}

(* Mutant: the search ends one slot early. *)
SlotForShort(s) == IF s # None THEN s
                   ELSE Min({t \in 1..(last + 1) : t >= last \/ proc[t].pid = None})

(* The slot of ngx_spawn_process(): the one to respawn, the first one with  *)
(* pid -1, or a new one at the end.                                         *)
SlotFor(s) == IF s # None THEN s
              ELSE Min({t \in 1..(last + 1) : t > last \/ proc[t].pid = None})

Styles ==
  [respawn      |-> [respawn |-> TRUE,  just |-> FALSE, detached |-> FALSE],
   just_respawn |-> [respawn |-> TRUE,  just |-> TRUE,  detached |-> FALSE],
   norespawn    |-> [respawn |-> FALSE, just |-> FALSE, detached |-> FALSE],
   just_spawn   |-> [respawn |-> FALSE, just |-> TRUE,  detached |-> FALSE],
   detached     |-> [respawn |-> FALSE, just |-> FALSE, detached |-> TRUE]]

(* ngx_spawn_process() makes process p in slot s. *)
Fork(s, p, kind, how) ==
  /\ proc' = [proc EXCEPT ![s] =
                IF how = "again"
                  THEN [@ EXCEPT !.pid = p, !.exited = FALSE, !.chan = p]
                  ELSE [pid |-> p, exited |-> FALSE, exiting |-> FALSE,
                        detached |-> Styles[how].detached,
                        respawn |-> Styles[how].respawn,
                        just |-> Styles[how].just,
                        chan |-> IF how = "detached" THEN None ELSE p,
                        kind |-> kind]]
  /\ last' = IF s > last THEN s ELSE last
  /\ slot' = s
  /\ child' = [child EXCEPT ![p] = [state |-> "run", kind |-> kind, told |-> {}]]

(* The caller announces the new process to the others with                  *)
(* ngx_pass_open_channel(); old is the view the others have before that.    *)
(* The child itself inherits the master's table.                            *)
Spawned(s, p, kind, how, old) ==
  /\ Fork(s, p, kind, how)
  /\ LET mine == [t \in Slots |-> IF t = s \/ t \notin InTable THEN None
                                  ELSE proc[t].chan]
         to == {t \in InTable : t # s /\ proc[t].chan # None}
     IN \E lost \in SUBSET to :
          /\ Lost(to, lost)
          /\ view' = [Broadcast(old, [command |-> "open", slot |-> s, fd |-> p],
                                to, lost) EXCEPT ![p] = mine]

(* fork() fails: the channel pair is closed again, but its numbers stay in  *)
(* the table; the slot counts as used only if it already was.               *)
SpawnFailed(s, fault) ==
  /\ fault \in Faults
  /\ Charge(TRUE)
  /\ slot' = s
  /\ UNCHANGED <<proc, last, child>>

(* The table is full: ngx_spawn_process() returns before it has set         *)
(* ngx_process_slot, and its caller announces the last spawned process      *)
(* again.                                                                   *)
SpawnRefused ==
  /\ SlotFor(None) > MaxProcs
  /\ view' = Broadcast(view, [command |-> "open", slot |-> slot, fd |-> proc[slot].chan],
                       {t \in InTable : t # slot /\ proc[t].chan # None}, {})
  /\ UNCHANGED <<table, child, faults>>

(* One call of ngx_spawn_process() with the announcement that follows it. *)
Start(kind, how) ==
  LET s == SlotFor(None)
  IN \/ /\ s <= MaxProcs
        /\ Spawned(s, Min(FreePids), kind, how, view)
     \/ s <= MaxProcs /\ SpawnFailed(s, "fork") /\ UNCHANGED view
     \/ SpawnRefused

-----------------------------------------------------------------------------
(* sigsuspend(): every pending signal is handled.  SIGCHLD collects all the *)
(* zombies (ngx_process_get_status()); the exit status 2 is final.          *)
Flag == [TERM |-> "terminate", QUIT |-> "quit", HUP |-> "reconfigure",
         USR1 |-> "reopen", USR2 |-> "change_binary", WINCH |-> "noaccept",
         ALRM |-> "sigalrm", CHLD |-> "reap"]

Zombies == {p \in Pids : child[p].state \in {"zombie", "fatal"}}

Suspend ==
  /\ pc = "suspend"
  /\ pending # {}
  /\ LET heard == IF newbin > 0 THEN pending \ {"USR2"} ELSE pending
     IN flags' = flags \cup {Flag[g] : g \in heard}
  /\ pending' = {}
  /\ IF "CHLD" \in pending
       THEN /\ child' = [p \in Pids |-> IF p \in Zombies
                                          THEN [NoChild EXCEPT !.state = "gone"]
                                          ELSE child[p]]
            /\ proc' = [s \in Slots |->
                 IF s \in InTable /\ proc[s].pid \in Zombies
                   THEN [proc[s] EXCEPT !.exited = TRUE,
                           !.respawn = @ /\ child[proc[s].pid].state # "fatal"]
                   ELSE proc[s]]
            /\ view' = [p \in Pids |-> IF p \in Zombies THEN Quiet ELSE view[p]]
       ELSE UNCHANGED <<child, proc, view>>
  /\ pc' = "wake"
  /\ UNCHANGED <<last, slot, settings, loop, extra, signals, faults>>

(* if (ngx_reap): ngx_reap_children() starts. *)
Wake ==
  /\ pc = "wake"
  /\ IF "reap" \in flags
       THEN /\ flags' = flags \ {"reap"}
            /\ i' = 1 /\ alive' = FALSE
            /\ ch' = [command |-> "close", slot |-> 1, fd |-> None]
            /\ pc' = "reap"
       ELSE /\ pc' = "decide"
            /\ UNCHANGED <<flags, i, alive, ch>>
  /\ UNCHANGED <<table, settings, todo, style, ret, pending, kids, extra, signals,
                 faults>>

(* A slot with nothing to do, or a child that is still there. *)
ReapPass ==
  /\ pc = "reap" /\ i <= last
  /\ proc[i].pid = None \/ ~proc[i].exited
  /\ alive' = (alive \/ (proc[i].pid # None
                         /\ (proc[i].exiting \/ ~proc[i].detached)))
  /\ i' = i + 1
  /\ UNCHANGED <<table, flags, settings, pc, ch, todo, style, ret, pending, kids,
                 extra, signals, faults>>

ToRespawn(s) == /\ proc[s].respawn /\ ~proc[s].exiting
                /\ "terminate" \notin flags /\ "quit" \notin flags

(* The exited child's channel is closed and the others are told, with the   *)
(* message as the loop has left it.                                         *)
AnnounceExit(lost) ==
  LET msg == [ch EXCEPT !.slot = i]
      to == {s \in InTable : ~proc[s].exited /\ proc[s].chan # None}
  IN IF proc[i].detached
       THEN view' = view /\ ch' = ch /\ lost = {}
       ELSE view' = Broadcast(view, msg, to, lost) /\ ch' = msg

(* An exited child that is not respawned.  If it was the new binary, the    *)
(* old one goes on alone and starts workers again if it had stopped them.   *)
ReapGone ==
  /\ pc = "reap" /\ i <= last
  /\ proc[i].pid # None /\ proc[i].exited /\ ~ToRespawn(i)
  /\ Charge(FALSE)
  /\ AnnounceExit({})
  /\ IF proc[i].pid = newbin
       THEN /\ newbin' = None
            /\ flags' = IF noaccepting THEN flags \cup {"restart"} ELSE flags
            /\ noaccepting' = FALSE
       ELSE UNCHANGED <<newbin, flags, noaccepting>>
  /\ proc' = [proc EXCEPT ![i] = NoProc]
  /\ last' = IF i = last THEN last - 1 ELSE last
  /\ i' = i + 1
  /\ UNCHANGED <<slot, live, delay, sigio, pc, alive, todo, style, ret, pending,
                 child, extra, signals>>

(* Mutant: a child that was told to leave is respawned as well. *)
ReapRespawnAlways ==
  /\ pc = "reap" /\ i <= last
  /\ proc[i].pid # None /\ proc[i].exited /\ proc[i].respawn
  /\ Spawned(i, Min(FreePids), proc[i].kind, "again", view)
  /\ ch' = [command |-> "open", slot |-> i, fd |-> Min(FreePids)]
  /\ alive' = TRUE
  /\ i' = i + 1
  /\ UNCHANGED <<flags, settings, pc, todo, style, ret, pending, extra, signals>>

(* An exited child that must run: respawned in its slot and announced. *)
ReapRespawn ==
  /\ pc = "reap" /\ i <= last
  /\ proc[i].pid # None /\ proc[i].exited /\ ToRespawn(i)
  /\ \E v \in {Broadcast(view, [ch EXCEPT !.slot = i],
                         {s \in InTable : ~proc[s].exited /\ proc[s].chan # None},
                         {})} :
       \/ /\ Spawned(i, Min(FreePids), proc[i].kind, "again", v)
          /\ ch' = [command |-> "open", slot |-> i, fd |-> Min(FreePids)]
          /\ alive' = TRUE
       \/ /\ SpawnFailed(i, "fork")
          /\ view' = v
          /\ ch' = [ch EXCEPT !.slot = i]
          /\ UNCHANGED alive
  /\ i' = i + 1
  /\ UNCHANGED <<flags, settings, pc, todo, style, ret, pending, extra, signals>>

ReapDone ==
  /\ pc = "reap" /\ i > last
  /\ live' = alive
  /\ pc' = "decide"
  /\ i' = 1 /\ alive' = FALSE
  /\ ch' = [command |-> "close", slot |-> 1, fd |-> None]
  /\ UNCHANGED <<table, flags, delay, sigio, newbin, noaccepting, todo, style, ret,
                 pending, kids, extra, signals, faults>>

-----------------------------------------------------------------------------
(* ngx_signal_worker_processes(): what every child of the table is told.    *)
(* A child that was just spawned is spared once; one that is leaving is not *)
(* told to quit again; a child that is gone (ESRCH) is marked exited.       *)
Spared(s) == proc[s].detached \/ proc[s].just
Addressed(what) == {s \in InTable : ~Spared(s) /\ ~(proc[s].exiting /\ what = "quit")}
Unreachable(what) == {s \in Addressed(what) : child[proc[s].pid].state = "gone"}

SignalWorkers(what) ==
  /\ proc' = [s \in Slots |->
       IF s \in Unreachable(what)
         THEN [proc[s] EXCEPT !.exited = TRUE, !.exiting = FALSE]
       ELSE IF s \in Addressed(what) /\ what # "reopen"
         THEN [proc[s] EXCEPT !.exiting = TRUE]
       ELSE IF s \in InTable /\ ~proc[s].detached THEN [proc[s] EXCEPT !.just = FALSE]
       ELSE proc[s]]
  /\ child' = [p \in Pids |->
       IF what # "reopen" /\ Running(p) /\ \E s \in Addressed(what) : proc[s].pid = p
         THEN [child[p] EXCEPT !.told = @ \cup {what}]
         ELSE child[p]]

Stop(f) == IF Unreachable(f) # {} THEN {"reap"} ELSE {}

(* if (!live && (ngx_terminate || ngx_quit)) ngx_master_process_exit() *)
MasterExit ==
  /\ pc = "decide"
  /\ ~live /\ ("terminate" \in flags \/ "quit" \in flags)
  /\ pc' = "exited"
  /\ UNCHANGED <<table, flags, settings, loop, pending, kids, extra, signals, faults>>

(* The head of the loop, where the alarm doubles the delay.  The delay only *)
(* matters up to the point where it exceeds 1000 ms.                        *)
Doubled(d) == IF d > 1000 THEN d ELSE 2 * d

BackToSuspend(fl, d, sg) ==
  IF d > 0 /\ "sigalrm" \in fl
    THEN /\ flags' = fl \ {"sigalrm"} /\ delay' = Doubled(d) /\ sigio' = 0
    ELSE /\ flags' = fl /\ delay' = d /\ sigio' = sg

Going == pc = "decide" /\ ~(~live /\ ("terminate" \in flags \/ "quit" \in flags))

(* Mutant: the children are never killed, only asked. *)
TerminateGently ==
  /\ Going /\ "terminate" \in flags
  /\ IF sigio > 0
       THEN /\ BackToSuspend(flags, IF delay = 0 THEN 50 ELSE delay, sigio - 1)
            /\ UNCHANGED <<proc, child>>
       ELSE /\ SignalWorkers("term")
            /\ BackToSuspend(flags \cup Stop("term"),
                             IF delay = 0 THEN 50 ELSE delay, NWorkers + 2)
  /\ pc' = "suspend"
  /\ UNCHANGED <<last, slot, live, newbin, noaccepting, loop, pending, view,
                 extra, signals, faults>>

(* if (ngx_terminate): ask, ask again when the alarm rings, and kill once   *)
(* the delay has grown over one second.                                     *)
Terminate ==
  /\ Going /\ "terminate" \in flags
  /\ LET d == IF delay = 0 THEN 50 ELSE delay
         what == IF d > 1000 THEN "kill" ELSE "term"
     IN IF sigio > 0
          THEN /\ BackToSuspend(flags, d, sigio - 1)
               /\ UNCHANGED <<proc, child>>
          ELSE /\ SignalWorkers(what)
               /\ BackToSuspend(flags \cup Stop(what), d, NWorkers + 2)
  /\ pc' = "suspend"
  /\ UNCHANGED <<last, slot, live, newbin, noaccepting, loop, pending, view,
                 extra, signals, faults>>

(* if (ngx_quit): the workers are told to finish; the flag stays set. *)
Quit ==
  /\ Going /\ "terminate" \notin flags /\ "quit" \in flags
  /\ SignalWorkers("quit")
  /\ BackToSuspend(flags \cup Stop("quit"), delay, sigio)
  /\ pc' = "suspend"
  /\ UNCHANGED <<last, slot, live, newbin, noaccepting, loop, pending, view,
                 extra, signals, faults>>

Staying == Going /\ "terminate" \notin flags /\ "quit" \notin flags

(* if (ngx_reconfigure) while the new binary runs: the old configuration is *)
(* started again and the other flags wait for the next signal.              *)
ReconfigureOldBinary ==
  /\ Staying /\ "reconfigure" \in flags /\ newbin # None
  /\ flags' = flags \ {"reconfigure"}
  /\ noaccepting' = FALSE
  /\ todo' = NWorkers /\ style' = "respawn" /\ ret' = "suspend"
  /\ pc' = "workers"
  /\ extra' = extra + 1
  /\ UNCHANGED <<table, live, delay, sigio, newbin, i, alive, ch, pending, kids,
                 signals, faults>>

(* ngx_init_cycle() refuses the new configuration: back to sigsuspend(). *)
ReconfigureFails ==
  /\ Staying /\ "reconfigure" \in flags /\ newbin = None
  /\ "config" \in Faults /\ Charge(TRUE)
  /\ flags' = flags \ {"reconfigure"}
  /\ pc' = "suspend"
  /\ UNCHANGED <<table, settings, loop, pending, kids, extra, signals>>

Reconfigure ==
  /\ Staying /\ "reconfigure" \in flags /\ newbin = None
  /\ flags' = flags \ {"reconfigure"}
  /\ todo' = NWorkers /\ style' = "just_respawn" /\ ret' = "told"
  /\ pc' = "workers"
  /\ UNCHANGED <<table, settings, i, alive, ch, pending, kids, extra, signals, faults>>

NoReconfigure ==
  /\ Staying /\ "reconfigure" \notin flags
  /\ pc' = "restart"
  /\ UNCHANGED <<table, flags, settings, loop, pending, kids, extra, signals, faults>>

-----------------------------------------------------------------------------
(* ngx_start_worker_processes(), one worker per step. *)
StartWorker ==
  /\ pc = "workers" /\ todo > 0
  /\ Start("worker", style)
  /\ todo' = todo - 1
  /\ UNCHANGED <<flags, settings, pc, i, alive, ch, style, ret, pending, extra, signals>>

WorkersStarted ==
  /\ pc = "workers" /\ todo = 0
  /\ pc' = IF "manager" \in Helpers THEN "manager" ELSE ret
  /\ UNCHANGED <<table, flags, settings, loop, pending, kids, extra, signals, faults>>

(* ngx_start_cache_manager_processes() *)
StartManager ==
  /\ pc = "manager"
  /\ Start("manager", style)
  /\ pc' = IF "loader" \in Helpers THEN "loader" ELSE ret
  /\ UNCHANGED <<flags, settings, loop, pending, extra, signals>>

StartLoader ==
  /\ pc = "loader"
  /\ Start("loader", IF style = "respawn" THEN "norespawn" ELSE "just_spawn")
  /\ pc' = ret
  /\ UNCHANGED <<flags, settings, loop, pending, extra, signals>>

(* The processes of the old configuration are told to quit. *)
TellOld ==
  /\ pc = "told"
  /\ live' = TRUE
  /\ SignalWorkers("quit")
  /\ flags' = flags \cup Stop("quit")
  /\ pc' = "restart"
  /\ UNCHANGED <<last, slot, delay, sigio, newbin, noaccepting, loop, pending,
                 view, extra, signals, faults>>

(* if (ngx_restart) *)
Restart ==
  /\ pc = "restart"
  /\ IF "restart" \in flags
       THEN /\ flags' = flags \ {"restart"}
            /\ live' = TRUE
            /\ todo' = NWorkers /\ style' = "respawn" /\ ret' = "reopen"
            /\ pc' = "workers"
            /\ extra' = extra + 1
       ELSE pc' = "reopen" /\ UNCHANGED <<flags, live, todo, style, ret, extra>>
  /\ UNCHANGED <<table, delay, sigio, newbin, noaccepting, i, alive, ch, pending,
                 kids, signals, faults>>

(* if (ngx_reopen) *)
Reopen ==
  /\ pc = "reopen"
  /\ IF "reopen" \in flags
       THEN /\ SignalWorkers("reopen")
            /\ flags' = (flags \ {"reopen"}) \cup Stop("reopen")
       ELSE UNCHANGED <<flags, proc, child>>
  /\ pc' = "binary"
  /\ UNCHANGED <<last, slot, settings, loop, pending, view, extra, signals, faults>>

(* if (ngx_change_binary): ngx_exec_new_binary() gives a pid or, when it    *)
(* fails, NGX_INVALID_PID.                                                  *)
ChangeBinary ==
  /\ pc = "binary"
  /\ IF "change_binary" \in flags
       THEN /\ flags' = flags \ {"change_binary"}
            /\ \/ /\ SlotFor(None) <= MaxProcs
                  /\ Fork(SlotFor(None), Min(FreePids), "binary", "detached")
                  /\ newbin' = Min(FreePids)
                  /\ UNCHANGED <<view, faults>>
               \/ /\ SlotFor(None) <= MaxProcs
                  /\ SpawnFailed(SlotFor(None), "exec")
                  /\ newbin' = Invalid
                  /\ UNCHANGED view
               \/ /\ SlotFor(None) > MaxProcs
                  /\ newbin' = Invalid
                  /\ UNCHANGED <<table, kids, faults>>
       ELSE UNCHANGED <<flags, table, kids, newbin, faults>>
  /\ pc' = "noaccept"
  /\ UNCHANGED <<live, delay, sigio, noaccepting, loop, pending, extra, signals>>

(* if (ngx_noaccept), and back to the head of the loop. *)
NoAccept ==
  /\ pc = "noaccept"
  /\ IF "noaccept" \in flags
       THEN /\ noaccepting' = TRUE
            /\ SignalWorkers("quit")
            /\ BackToSuspend((flags \ {"noaccept"}) \cup Stop("quit"), delay, sigio)
       ELSE /\ BackToSuspend(flags, delay, sigio)
            /\ UNCHANGED <<noaccepting, proc, child>>
  /\ pc' = "suspend"
  /\ UNCHANGED <<last, slot, live, newbin, loop, pending, view, extra, signals, faults>>

-----------------------------------------------------------------------------
(* A child leaves: it was told to, it is the loader and has finished, or it *)
(* fails, by a signal ("crash") or with the exit status 2 ("fatal").        *)
Leave(p, state) ==
  /\ child' = [child EXCEPT ![p] = [@ EXCEPT !.state = state, !.told = {}]]
  /\ pending' = pending \cup {"CHLD"}
  /\ UNCHANGED <<table, flags, settings, pc, loop, view, extra, signals>>

ChildExit(p) ==
  /\ Running(p)
  /\ child[p].told # {} \/ child[p].kind = "loader"
  /\ Charge(FALSE)
  /\ Leave(p, "zombie")

ChildKilled(p) ==
  /\ Running(p) /\ "kill" \in child[p].told
  /\ Charge(FALSE)
  /\ Leave(p, "zombie")

ChildFails(p) ==
  /\ Running(p)
  /\ Charge(TRUE)
  /\ \/ "crash" \in Faults /\ Leave(p, "zombie")
     \/ "fatal" \in Faults /\ Leave(p, "fatal")

(* The administrator sends a signal to the master. *)
Kill(g) ==
  /\ g \in Signals /\ signals < MaxSignals /\ pc # "exited"
  /\ signals' = signals + 1
  /\ pending' = pending \cup {g}
  /\ UNCHANGED <<table, flags, settings, pc, loop, kids, extra, faults>>

(* The interval timer that the loop sets while it has a delay. *)
Alarm ==
  /\ pc = "suspend" /\ delay > 0
  /\ pending' = pending \cup {"ALRM"}
  /\ UNCHANGED <<table, flags, settings, pc, loop, kids, extra, signals, faults>>

MasterStep ==
  \/ Suspend \/ Wake
  \/ ReapPass \/ ReapGone \/ ReapRespawn \/ ReapDone
  \/ MasterExit \/ Terminate \/ Quit
  \/ ReconfigureOldBinary \/ ReconfigureFails \/ Reconfigure \/ NoReconfigure
  \/ StartWorker \/ WorkersStarted \/ StartManager \/ StartLoader
  \/ TellOld \/ Restart \/ Reopen \/ ChangeBinary \/ NoAccept

Next ==
  \/ MasterStep
  \/ \E p \in Pids : ChildExit(p) \/ ChildKilled(p) \/ ChildFails(p)
  \/ \E g \in Signals : Kill(g)
  \/ Alarm

Spec == Init /\ [][Next]_vars

(* The master is scheduled, its timer rings, SIGKILL works.  Nothing forces *)
(* a worker that was only asked to leave to do so.                          *)
FairSpec ==
  /\ Spec
  /\ WF_vars(MasterStep) /\ WF_vars(Alarm)
  /\ \A p \in Pids : WF_vars(ChildKilled(p))

-----------------------------------------------------------------------------
TypeOK ==
  /\ \A s \in Slots : proc[s].pid \in Pids \cup {None}
                      /\ proc[s].chan \in Pids \cup {None}
  /\ last \in 0..MaxProcs /\ slot \in Slots
  /\ flags \subseteq {Flag[g] : g \in DOMAIN Flag} \cup {"restart"}
  /\ pending \subseteq DOMAIN Flag
  /\ newbin \in Pids \cup {None, Invalid}
  /\ delay \in {0, 50, 100, 200, 400, 800, 1600}
  /\ sigio \in 0..(NWorkers + 2)
  /\ \A p \in Pids : child[p].state \in {"none", "run", "zombie", "fatal", "gone"}
  /\ \A p \in Pids, s \in Slots : view[p][s] \in Pids \cup {None}
  /\ signals \in 0..MaxSignals /\ faults \in 0..MaxFaults

AtRest == pc = "suspend" /\ pending = {} /\ flags = {}

(* The workers that serve: running and not asked to leave. *)
Serving == {p \in Pids : /\ Running(p) /\ child[p].kind = "worker"
                         /\ child[p].told = {}}

(* Whenever the master rests, worker_processes workers serve, after any mix *)
(* of crashes, respawns, reconfigurations, log rotations and upgrades of    *)
(* the binary, unless they were stopped on purpose; more serve only when    *)
(* the old configuration was started again beside a new binary or after it. *)
FullCrew ==
  AtRest /\ ~noaccepting
    => Cardinality(Serving) \in NWorkers..(NWorkers * (1 + extra))

(* A process of the master that is alive is in the table, in one slot only: *)
(* otherwise no signal would ever reach it again.                           *)
Tracked ==
  pc # "exited" =>
    \A p \in Pids : Running(p) => Cardinality({s \in InTable : proc[s].pid = p}) = 1

Orphans == {p \in Pids : Running(p) /\ child[p].kind # "binary"}

(* The master leaves nobody behind as long as it has not started its        *)
(* workers again beside a new binary or after it.                           *)
LeavesNobody == pc = "exited" /\ extra = 0 => Orphans = {}

(* Every child knows the channel of every other child: whenever the master  *)
(* rests, a running child of the table holds for each other live slot the   *)
(* channel of the process that is there now, whatever was respawned while   *)
(* it was being started.                                                    *)
ChannelsKnown ==
  AtRest =>
    \A s, t \in InTable :
      s # t /\ ~proc[s].detached /\ ~proc[t].detached
        => view[proc[s].pid][t] = proc[t].chan

(* The master knows every process it started and leaves only after them.    *)
NobodyLost == Tracked /\ LeavesNobody


=============================================================================
