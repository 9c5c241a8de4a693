---------------------------- MODULE ActorMailbox ----------------------------
(***************************************************************************)
(* What a runtime of actors promises to the services it runs, Sunnet's of  *)
(* chapters 05 to 07 and skynet of 02 to 04 alike: each service has a      *)
(* mailbox, messages leave it in the order in which they entered it, none  *)
(* is lost or doubled on the way, and a service handles one message at a   *)
(* time; what is left when it has ended may be thrown away.  Nothing is    *)
(* said of threads, locks or the global queue: they are how                *)
(* SunnetScheduler and SkynetQueue keep this promise, and both are checked *)
(* and proved to implement this module.                                    *)
(***************************************************************************)
EXTENDS Sequences

CONSTANTS Service,    \* the services a message can be sent to
          Msg,        \* the messages
          Idle        \* "no message is being handled", not a message

VARIABLES mailbox,    \* mailbox[s]: what was sent to s and not yet taken
          handling,   \* handling[s]: the message s is handling, or Idle
          ended       \* the services that were told to end

mvars == <<mailbox, handling, ended>>

MailboxInit ==
  /\ mailbox = [s \in Service |-> << >>]
  /\ handling = [s \in Service |-> Idle]
  /\ ended = {}

(* A sender hands m to s. *)
Deliver(s, m) ==
  /\ mailbox' = [mailbox EXCEPT ![s] = Append(@, m)]
  /\ UNCHANGED <<handling, ended>>

(* s starts on its oldest message, which it can only do between messages. *)
Take(s) ==
  /\ handling[s] = Idle
  /\ mailbox[s] # << >>
  /\ handling' = [handling EXCEPT ![s] = Head(mailbox[s])]
  /\ mailbox' = [mailbox EXCEPT ![s] = Tail(@)]
  /\ UNCHANGED ended

Finish(s) ==
  /\ handling[s] # Idle
  /\ handling' = [handling EXCEPT ![s] = Idle]
  /\ UNCHANGED <<mailbox, ended>>

(* s is told to end; only then may messages be thrown away. *)
End(s) ==
  /\ ended' = ended \cup {s}
  /\ UNCHANGED <<mailbox, handling>>

Drop(s) ==
  /\ s \in ended
  /\ mailbox[s] # << >>
  /\ mailbox' = [mailbox EXCEPT ![s] = Tail(@)]
  /\ UNCHANGED <<handling, ended>>

MailboxNext ==
  \E s \in Service :
    (\E m \in Msg : Deliver(s, m)) \/ Take(s) \/ Finish(s) \/ End(s) \/ Drop(s)

MailboxSpec == MailboxInit /\ [][MailboxNext]_mvars
=============================================================================
