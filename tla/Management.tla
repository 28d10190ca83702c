----------------------------- MODULE Management -----------------------------
(***************************************************************************)
(* The bridge's management plane: the admin listener and its connections   *)
(* (admin.rs), the tokens they create (VkShare), and the control-plane     *)
(* task with the consumer of its commands (control_plane.rs, server.rs).   *)
(*                                                                         *)
(* One connection of the admin channel is one handshake, one command and   *)
(* one answer.  Its sequence check reads a shared atomic and advances it   *)
(* in two steps, between which other connections run.                      *)
(***************************************************************************)
EXTENDS VkShare, Sequences

CONSTANTS
  Conn,         \* admin connections
  MaxSeq,       \* bound: sequence numbers of commands
  RateLimit,    \* rate_limit_per_second
  Second,       \* Duration::from_secs(1), in ticks
  Fresh,        \* SIGNED_RESPONSE_FRESHNESS_SECS, in ticks
  QueueCap,     \* capacity of the command channel (32)
  MaxTime,      \* bound: ticks
  MaxBeats      \* bound: heartbeats

ASSUME ManagementAssumption ==
  /\ MaxSeq \in Nat /\ RateLimit \in Nat \ {0} /\ Second \in Nat \ {0}
  /\ Fresh \in Nat /\ QueueCap \in Nat \ {0} /\ MaxTime \in Nat /\ MaxBeats \in Nat

VARIABLES
  part,       \* the part under study: "admin" or "control_plane"
  adm,        \* the admin connections
  cmd_seq,    \* the shared AtomicU64
  answered,   \* seqs whose answer was written
  rate,       \* rate_window_start, rate_count, and when connections were let in
  cp,         \* the control-plane task
  signed,     \* the timestamps of the responses the cloud has signed
  queue,      \* the mpsc channel of BridgeCommands
  rotations,  \* the rotate_tx watch value
  shutdown    \* whether the shutdown watch has fired

admVars == <<adm, cmd_seq, answered, rate>>
cpVars == <<cp, signed, queue>>
vars == <<part, vkVars, admVars, cpVars, rotations, shutdown>>

NoFrame == [seq |-> 0, cmd |-> "none"]

Init ==
  /\ part \in {"admin", "control_plane"}
  /\ VkInit
  /\ adm = [c \in Conn |-> [pc |-> "new", frame |-> NoFrame, late |-> FALSE]]
  /\ cmd_seq = 0 /\ answered = {}
  /\ rate = [start |-> 0, count |-> 0, passed |-> <<>>]
  /\ cp = [pc |-> "start", vk |-> "none", cmds |-> <<>>, beats |-> 0, taken |-> {}, accepted |-> 0]
  /\ signed = {} /\ queue = <<>>
  /\ rotations = 0 /\ shutdown = FALSE

-----------------------------------------------------------------------------
(* The admin listener.                                                     *)

\* A new window starts a second after the last one started.
Window ==
  IF now - rate.start >= Second THEN [rate EXCEPT !.start = now, !.count = 0] ELSE rate

Counted == [Window EXCEPT !.count = @ + 1]

Limited_from_drop(r) == r.count > RateLimit + 1   \* mutant: off by one

\* A dropped connection counts.
Limited(r) == r.count > RateLimit

Accept(c) ==
  /\ part = "admin" /\ ~shutdown /\ adm[c].pc = "new"
  /\ IF Limited(Counted)
     THEN rate' = Counted /\ adm' = [adm EXCEPT ![c].pc = "closed"]
     ELSE /\ rate' = [Counted EXCEPT !.passed = Append(@, now)]
          /\ adm' = [adm EXCEPT ![c].pc = "handshake"]
  /\ UNCHANGED <<part, vkVars, cmd_seq, answered, cpVars, rotations, shutdown>>

Closed == [pc |-> "closed", frame |-> NoFrame, late |-> FALSE]

Step(c, from, to) ==
  /\ adm[c].pc = from
  /\ adm' = [adm EXCEPT ![c] = IF to = "closed" THEN Closed ELSE [@ EXCEPT !.pc = to]]

\* do_handshake fails or times out; the frame does not open, is a KEY_ROTATE or
\* no JSON: the connection ends without an answer.
Drops(c) ==
  /\ Step(c, "handshake", "closed")
  /\ UNCHANGED <<part, vkVars, cmd_seq, answered, rate, cpVars, rotations, shutdown>>

is_seq_valid(seq, last_seen) == seq > last_seen

\* One command is read, and cmd_seq loaded for its check.  late: a command with
\* this seq or a later one was answered before.
ReadCommand(c) ==
  /\ adm[c].pc = "handshake"
  /\ \E s \in 0 .. MaxSeq, k \in {"GetMetrics", "Rotate", "GetVkToken"} :
       adm' = [adm EXCEPT ![c] =
                IF is_seq_valid(s, cmd_seq)
                THEN [pc |-> "fetch_max", frame |-> [seq |-> s, cmd |-> k],
                      late |-> \E a \in answered : a >= s]
                ELSE Closed]
  /\ UNCHANGED <<part, vkVars, cmd_seq, answered, rate, cpVars, rotations, shutdown>>

Advanced_store(seq) == seq   \* mutant: a store in place of fetch_max

Advanced(seq) == IF seq > cmd_seq THEN seq ELSE cmd_seq

handle_rotate == rotations' = rotations + 1 /\ UNCHANGED vkVars

handle_get_vk_token ==
  /\ \/ \E t \in Token : create_token(t)
     \/ Token = minted /\ UNCHANGED vkVars   \* bound: tokens
  /\ UNCHANGED rotations

\* The counter is advanced, and the command runs, without an await between.
Dispatch(c) ==
  /\ adm[c].pc = "fetch_max"
  /\ adm' = [adm EXCEPT ![c].pc = "answer", ![c].frame.cmd = "none"]
  /\ cmd_seq' = Advanced(adm[c].frame.seq)
  /\ \/ adm[c].frame.cmd = "GetMetrics" /\ UNCHANGED <<vkVars, rotations>>
     \/ adm[c].frame.cmd = "Rotate" /\ handle_rotate
     \/ adm[c].frame.cmd = "GetVkToken" /\ handle_get_vk_token
  /\ UNCHANGED <<part, answered, rate, cpVars, shutdown>>

Answer(c) ==
  /\ Step(c, "answer", "closed")
  /\ answered' = answered \cup {adm[c].frame.seq}
  /\ UNCHANGED <<part, vkVars, cmd_seq, rate, cpVars, rotations, shutdown>>

\* GET /vk/<token> at the TLS listener.
VkGet(t) ==
  /\ part = "admin" /\ vk_response(t)
  /\ UNCHANGED <<part, admVars, cpVars, rotations, shutdown>>

-----------------------------------------------------------------------------
(* The control plane.                                                      *)

CpStep(from, r) == part = "control_plane" /\ cp.pc = from /\ cp' = r

CpIdle == UNCHANGED <<part, vkVars, admVars, rotations, shutdown>>

\* The file at cloud_vk_path; one that is not a whole key turns verification off.
load_cloud_vk(f) == IF f = "whole" THEN "loaded" ELSE "none"

\* The key, and the HTTP client, without which the task ends.
Start ==
  /\ \E f \in {"unset", "missing", "short", "whole"}, pc \in {"register", "stopped"} :
       CpStep("start", [cp EXCEPT !.vk = load_cloud_vk(f), !.pc = pc])
  /\ UNCHANGED <<signed, queue>> /\ CpIdle

\* The agent id of the answer: no request that fails, is refused or is answered
\* with something else has one.
try_register(resp) == resp = "agent_id"

\* Registration is tried once.
Register ==
  /\ \E resp \in {"error", "refused", "unparsable", "agent_id"} :
       CpStep("register", [cp EXCEPT !.pc = IF try_register(resp) THEN "sleep" ELSE "stopped"])
  /\ UNCHANGED <<signed, queue>> /\ CpIdle

Beat ==
  /\ cp.beats < MaxBeats
  /\ CpStep("sleep", [cp EXCEPT !.pc = "await", !.beats = @ + 1])
  /\ UNCHANGED <<signed, queue>> /\ CpIdle

StopBeating ==
  /\ shutdown /\ CpStep("sleep", [cp EXCEPT !.pc = "stopped"])
  /\ UNCHANGED <<signed, queue>> /\ CpIdle

\* The request fails, times out, is not answered with 2xx or with too much.
BeatFails ==
  /\ CpStep("await", [cp EXCEPT !.pc = "sleep"])
  /\ UNCHANGED <<signed, queue>> /\ CpIdle

\* Mutant: a time stamp in the future is taken for a fresh one.
IsFresh_one_sided(ts) == now - ts <= Fresh

IsFresh(ts) == now - ts <= Fresh /\ ts - now <= Fresh

\* The commands of a response: with the cloud's key, those of a payload that is
\* signed and fresh; without it, those of the envelope.
Commands(r) ==
  IF cp.vk = "none" THEN r.pending_commands
  ELSE IF r.signature = "good" /\ IsFresh(r.ts) THEN r.inner ELSE <<>>

CmdLists == {<<>>, <<"Rotate">>, <<"Unknown", "Rotate">>, <<"Rotate", "Rotate">>}

Rotates(cmds) == Cardinality({i \in DOMAIN cmds : cmds[i] = "Rotate"})

\* The cloud signs with a clock of its own, or not at all; a response may arrive late or
\* twice: ts is that of a new payload or of one signed before.
BeatAnswered ==
  /\ \E r \in [pending_commands : {<<>>, <<"Rotate">>}, inner : CmdLists,
               signature : {"good", "bad"},
               ts : signed \cup {now - Fresh - 1, now, now + Fresh + 1}] :
       /\ CpStep("await", [cp EXCEPT !.pc = "apply", !.cmds = Commands(r),
                   !.accepted = @ + Rotates(Commands(r)),
                   !.taken = IF cp.vk = "loaded" /\ Commands(r) # <<>>
                             THEN @ \cup {[ts |-> r.ts, at |-> now, signature |-> r.signature]}
                             ELSE @])
       /\ signed' = IF r.signature = "good" THEN signed \cup {r.ts} ELSE signed
  /\ UNCHANGED queue /\ CpIdle

Apply_try_send ==   \* mutant: a command that finds the channel full is dropped
  /\ IF cp.cmds = <<>>
     THEN CpStep("apply", [cp EXCEPT !.pc = "sleep"]) /\ UNCHANGED queue
     ELSE /\ CpStep("apply", [cp EXCEPT !.cmds = Tail(@)])
          /\ queue' = IF Head(cp.cmds) = "Unknown" \/ Len(queue) = QueueCap THEN queue
                      ELSE Append(queue, Head(cp.cmds))
  /\ UNCHANGED signed /\ CpIdle

\* Unknown commands are skipped; send waits for room.
Apply ==
  /\ IF cp.cmds = <<>>
     THEN CpStep("apply", [cp EXCEPT !.pc = "sleep"]) /\ UNCHANGED queue
     ELSE /\ CpStep("apply", [cp EXCEPT !.cmds = Tail(@)])
          /\ IF Head(cp.cmds) = "Unknown" THEN UNCHANGED queue
             ELSE Len(queue) < QueueCap /\ queue' = Append(queue, Head(cp.cmds))
  /\ UNCHANGED signed /\ CpIdle

Consume_until_shutdown ==   \* mutant: the consumer leaves at the shutdown
  /\ ~shutdown /\ queue # <<>>
  /\ queue' = Tail(queue) /\ rotations' = rotations + 1
  /\ UNCHANGED <<part, vkVars, admVars, cp, signed, shutdown>>

\* The consumer of the command channel, spawned by run.
Consume ==
  /\ queue # <<>>
  /\ queue' = Tail(queue) /\ rotations' = rotations + 1
  /\ UNCHANGED <<part, vkVars, admVars, cp, signed, shutdown>>

-----------------------------------------------------------------------------
Tick ==
  /\ now < MaxTime /\ VkTick
  /\ UNCHANGED <<part, admVars, cpVars, rotations, shutdown>>

Signal ==
  /\ ~shutdown /\ shutdown' = TRUE
  /\ UNCHANGED <<part, vkVars, admVars, cpVars, rotations>>

Admin(c) == Accept(c) \/ Drops(c) \/ ReadCommand(c) \/ Dispatch(c) \/ Answer(c)

ControlPlane == Start \/ Register \/ Beat \/ StopBeating \/ BeatFails \/ BeatAnswered \/ Apply

Next ==
  \/ Tick \/ Signal \/ ControlPlane \/ Consume
  \/ \E c \in Conn : Admin(c)
  \/ \E t \in Token : VkGet(t)

\* Every request of the control-plane task has a timeout, and tokio polls the
\* tasks that are ready.
Spec == Init /\ [][Next]_vars /\ WF_vars(ControlPlane) /\ WF_vars(Consume)

-----------------------------------------------------------------------------
(* Properties.                                                             *)

\* Once a command was answered, no command read later with its seq or a lower one
\* runs, in whatever order concurrent connections load and advance cmd_seq.
AnsweredNotReplayed ==
  \A c \in Conn : adm[c].pc \in {"fetch_max", "answer"} => ~adm[c].late

\* The fixed window of the rate limiter lets no more than two limits' worth of
\* connections through in less than a second, wherever the second starts.
RateBound ==
  \A i, j \in DOMAIN rate.passed :
    j - i >= 2 * RateLimit => rate.passed[j] - rate.passed[i] >= Second

\* With the cloud's key loaded, commands are taken only from a response the cloud
\* signed, within the freshness window around its time stamp: send_heartbeat's
\* early returns let nothing else through, however late or often it arrives.
CommandsFresh ==
  \A x \in cp.taken :
    x.signature = "good" /\ x.at - x.ts <= Fresh /\ x.ts - x.at <= Fresh

\* No command is lost or carried out twice between the heartbeat that brought it
\* and rotate_tx: the channel, at its limit too, keeps what it was given.
NoCommandLost ==
  part = "control_plane" =>
    rotations + Len(queue) + Rotates(cp.cmds) = cp.accepted

\* After the shutdown signal the heartbeat loop ends, whether it was registering,
\* asleep, waiting for an answer or waiting for room in the command channel.
HeartbeatStops == shutdown /\ part = "control_plane" ~> cp.pc = "stopped"
=============================================================================
