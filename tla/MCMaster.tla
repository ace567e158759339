------------------------------ MODULE MCMaster ------------------------------
(* Small instances of Master for TLC: two workers through two signals, as   *)
(* in the configuration file, or through one signal and two crashes; one    *)
(* worker with the helper processes of the cache, a fork() that fails and a *)
(* deaf child; and one worker with the cache manager for the end of the     *)
(* service.                                                                 *)
EXTENDS Master, TLC

VARIABLE crew

Crashing == INSTANCE Master WITH Faults <- {"crash"}, MaxFaults <- 2, MaxSignals <- 1

Small == INSTANCE Master WITH
  NWorkers <- 1, Helpers <- {"manager", "loader"}, MaxProcs <- 4,
  Signals <- {"HUP", "TERM"}, MaxSignals <- 2,
  Faults <- {"fatal", "fork", "channel", "config"}, MaxFaults <- 1

Ending == INSTANCE Master WITH
  NWorkers <- 1, Helpers <- {"manager"}, MaxProcs <- 4,
  Signals <- {"HUP", "TERM"}, MaxSignals <- 2,
  Faults <- {"fatal", "fork"}, MaxFaults <- 1

MCInit == \/ crew \in {"workers", "crashes"} /\ Init
          \/ crew = "helpers" /\ Small!Init
          \/ crew = "ending" /\ Ending!Init

MCNext ==
  /\ UNCHANGED crew
  /\ \/ crew = "workers" /\ Next
     \/ crew = "crashes" /\ Crashing!Next
     \/ crew = "helpers" /\ Small!Next
     \/ crew = "ending" /\ Ending!Next

(* The fairness of Master. *)
MCSpec ==
  /\ MCInit /\ [][MCNext]_<<vars, crew>>
  /\ WF_vars(crew = "ending" /\ Ending!MasterStep)
  /\ WF_vars(crew = "ending" /\ Ending!Alarm)
  /\ \A p \in Pids : WF_vars(crew = "ending" /\ Ending!ChildKilled(p))

(* The crew is complete. *)
WorkersTracked == /\ crew = "workers" => TypeOK /\ FullCrew
                  /\ crew = "crashes" => Crashing!TypeOK /\ FullCrew

(* Every child knows the channels of the others. *)
ChannelsTold == crew \in {"workers", "crashes"} => ChannelsKnown

(* SIGTERM ends the service. *)
TermEnds == (crew = "ending" /\ "TERM" \in pending) ~> (pc = "exited")
=============================================================================
