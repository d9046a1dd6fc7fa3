--------------------------------- MODULE Agent ---------------------------------
(***************************************************************************)
(* The agent (agent/internal/app/main.go): it reads a Kafka partition and  *)
(* runs kubectl for every message, MaxRetries times whether it fails or    *)
(* not, and commits the message in any case.  kubectl delete comes back    *)
(* only when the object is gone.  What kubectl does to the cluster is left *)
(* to the module that composes the agent with one.                         *)
(***************************************************************************)
EXTENDS Naturals, Sequences

CONSTANTS MaxRetries,
          Message,
          Logs,   \* the partitions: sequences of messages
          Broken  \* a message that is not JSON

ASSUME AgentAssumption == MaxRetries \in Nat \ {0} /\ Logs \subseteq Seq(Message)

VARIABLES
  log,        \* the partition; it does not grow
  position,   \* how many messages the consumer has been given and done with
  tries,      \* how many times the present message was executed
  waiting     \* kubectl delete waits for the finalizers of its object

agent == <<log, position, tries, waiting>>

AgentInit ==
  /\ log \in Logs
  /\ position = 0 /\ tries = 0 /\ waiting = FALSE

Current == log[position + 1]

\* Mutant: one iteration too many.
ProcessingOnceMore ==
  /\ position < Len(log)
  /\ tries <= MaxRetries
  /\ ~waiting

\* readMessages has a message and iterations left.
Processing ==
  /\ position < Len(log)
  /\ tries < MaxRetries
  /\ ~waiting

\* One iteration of the loop: kubectl has come back, or has not.
Returns ==
  /\ tries' = tries + 1 /\ waiting' = FALSE
  /\ UNCHANGED <<log, position>>

Hangs ==
  /\ waiting' = TRUE
  /\ UNCHANGED <<log, position, tries>>

\* json.Unmarshal fails: break.
GivesUp ==
  /\ Processing /\ Current = Broken
  /\ tries' = MaxRetries
  /\ UNCHANGED <<log, position, waiting>>

\* Mutant: a message that is not JSON is not committed.
CommitWhatParses ==
  /\ position < Len(log) /\ tries = MaxRetries /\ Current # Broken
  /\ position' = position + 1 /\ tries' = 0
  /\ UNCHANGED <<log, waiting>>

Commit ==
  /\ position < Len(log) /\ tries = MaxRetries
  /\ position' = position + 1 /\ tries' = 0
  /\ UNCHANGED <<log, waiting>>

\* The agent is restarted, or thrown out of its consumer group because
\* kubectl took too long.  It goes on after the last message that the broker
\* has down as committed: CommitMessage's error is not read.
Rejoin ==
  /\ position' \in 0 .. position
  /\ tries' = 0 /\ waiting' = FALSE
  /\ UNCHANGED log
===============================================================================
