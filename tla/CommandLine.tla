---------------------------- MODULE CommandLine -----------------------------
(***************************************************************************)
(* One invocation of onetui (src/src/main.rs): the schema, the terminal,   *)
(* or the check of one connection, which an interruption cancels and which *)
(* always shuts its executor down. A provider's check is a sequence of     *)
(* calls, each raced by RequestContext::run (crates/core/src/provider.rs)  *)
(* against the cancellation and the deadline.                              *)
(***************************************************************************)
EXTENDS Integers

CONSTANT Calls      \* calls of a provider's check

VARIABLE cmd

-----------------------------------------------------------------------------
(* Data *)

(* What the command line and the configuration decide before anything runs *)
Args == [schema : BOOLEAN, check : BOOLEAN, connection : BOOLEAN, config : BOOLEAN,
         terminal : BOOLEAN, file : {"missing", "invalid", "valid"},
         alias : BOOLEAN, secrets : BOOLEAN]

(* cancel, late: the two things a call is raced against. executor: what is *)
(* left open. code: the exit code, once there is one.                      *)
Cmd == [pc : {"start", "check", "cancelled", "shutdown", "tui", "exit"}, args : Args,
        call : 0 .. Calls, cancel : BOOLEAN, late : BOOLEAN, signal : {"none", "ok", "failed"},
        checked : {"none", "ok", "error"}, executor : {"none", "open", "closed"},
        code : {"none", "ok", "error"}]

(* clap: --check requires --connection.                                    *)
Accepted == {args \in Args : args.check => args.connection}

Exit(code) == cmd' = [cmd EXCEPT !.pc = "exit", !.code = code]

-----------------------------------------------------------------------------
(* Before a connection is made *)

(* The schema stands alone and reads nothing.                              *)
Schema ==
    /\ cmd.pc = "start" /\ cmd.args.schema
    /\ Exit(IF cmd.args.check \/ cmd.args.connection THEN "error" ELSE "ok")

(* A missing file is only accepted for the default path of the terminal.   *)
Loads ==
    /\ cmd.args.file # "invalid"
    /\ cmd.args.file = "missing" => ~cmd.args.config /\ ~cmd.args.check

Refused ==
    /\ cmd.pc = "start" /\ ~cmd.args.schema
    /\ \/ ~cmd.args.check /\ ~cmd.args.terminal
       \/ ~Loads
       \/ cmd.args.check /\ (~cmd.args.alias \/ ~cmd.args.secrets)
    /\ Exit("error")

Terminal ==
    /\ cmd.pc = "start" /\ ~cmd.args.schema /\ ~cmd.args.check
    /\ cmd.args.terminal /\ Loads
    /\ cmd' = [cmd EXCEPT !.pc = "tui"]

TerminalEnds == cmd.pc = "tui" /\ \E code \in {"ok", "error"} : Exit(code)

(* Config::configure resolves the secrets of this connection alone.        *)
Configure ==
    /\ cmd.pc = "start" /\ ~cmd.args.schema /\ cmd.args.check
    /\ Loads /\ cmd.args.alias /\ cmd.args.secrets
    /\ cmd' = [cmd EXCEPT !.pc = "check", !.executor = "open"]

-----------------------------------------------------------------------------
(* The check *)

Checked(result) == [cmd EXCEPT !.pc = "shutdown", !.checked = result]

(* RequestContext::run is biased: a cancellation wins over the deadline,   *)
(* and both over a value that is ready too.                                *)
CallEnds ==
    /\ cmd.pc \in {"check", "cancelled"}
    /\ ~cmd.cancel /\ ~cmd.late
    /\ \/ /\ cmd.call < Calls
          /\ cmd' = [cmd EXCEPT !.call = @ + 1]
       \/ cmd.call < Calls /\ cmd' = Checked("error")

(* The last call has ended: the summary is the result.                     *)
CheckSucceeds ==
    /\ cmd.pc \in {"check", "cancelled"} /\ cmd.call = Calls /\ ~cmd.cancel
    /\ cmd' = Checked(IF cmd.signal = "failed" THEN "error" ELSE "ok")

CheckStopped ==
    /\ cmd.pc \in {"check", "cancelled"} /\ cmd.call < Calls
    /\ cmd.cancel \/ cmd.late
    /\ cmd' = Checked("error")

DeadlinePasses ==
    /\ cmd.pc \in {"check", "cancelled"} /\ ~cmd.late
    /\ cmd' = [cmd EXCEPT !.late = TRUE]

(* Ctrl-C, or its listener failing, while the check is pending: it is      *)
(* cancelled and waited for.                                               *)
Interrupted ==
    /\ cmd.pc = "check" /\ cmd.call < Calls
    /\ \E signal \in {"ok", "failed"} :
          cmd' = [cmd EXCEPT !.pc = "cancelled", !.signal = signal, !.cancel = TRUE]

(* The executor is shut down whatever the check said, for one second.      *)
Shutdown ==
    /\ cmd.pc = "shutdown"
    /\ \E closed \in BOOLEAN :
          cmd' = [cmd EXCEPT !.pc = "exit", !.executor = "closed",
                             !.code = IF cmd.checked = "ok" /\ closed THEN "ok" ELSE "error"]

-----------------------------------------------------------------------------
Starts ==
    {[pc |-> "start", args |-> args, call |-> 0, cancel |-> FALSE, late |-> FALSE,
      signal |-> "none", checked |-> "none", executor |-> "none", code |-> "none"] :
        args \in Accepted}

Init == cmd \in Starts

Done == cmd.pc = "exit" /\ UNCHANGED cmd

Next ==
    \/ Schema \/ Refused \/ Terminal \/ TerminalEnds \/ Configure
    \/ CallEnds \/ CheckSucceeds \/ CheckStopped \/ DeadlinePasses \/ Interrupted \/ Shutdown
    \/ Done

Spec == Init /\ [][Next]_cmd

(* What a check does by itself: time passes, the deadline comes, and what   *)
(* it races is polled then; the shutdown has a deadline of its own.        *)
Progress == Configure \/ DeadlinePasses \/ CheckStopped \/ CheckSucceeds \/ Shutdown

-----------------------------------------------------------------------------
(* Properties *)

TypeOK == cmd \in Cmd

(* No way out of the program leaves an executor open, and a check that was *)
(* interrupted before its last call ended never reports OK.                *)
ChecksLeaveNothing ==
    /\ cmd.pc = "exit" => cmd.executor # "open"
    /\ cmd.code = "ok" /\ cmd.args.check => cmd.call = Calls /\ cmd.signal = "none"

=============================================================================
