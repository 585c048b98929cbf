--------------------------------- MODULE Screen ---------------------------------
(***************************************************************************)
(* The modes of the terminal that the program turns on (crates/tui/src/    *)
(* ui.rs): raw input on the alternate screen, the keyboard flags that are  *)
(* pushed there, bracketed paste. They are turned off by a guard that is   *)
(* dropped at the end, and by a hook when any thread panics, which may be  *)
(* the worker's while the terminal loop goes on.                           *)
(***************************************************************************)
EXTENDS Integers

VARIABLE scr

-----------------------------------------------------------------------------
(* The terminal has a stack of keyboard flags for each of its screens; the *)
(* main one has what the program's own caller pushed.                      *)
Restored == [alternate |-> FALSE, raw |-> FALSE, paste |-> FALSE, main |-> 1, flags |-> 0]

Pop(terminal) ==
    IF terminal.alternate
    THEN [terminal EXCEPT !.flags = IF @ = 0 THEN 0 ELSE @ - 1]
    ELSE [terminal EXCEPT !.main = IF @ = 0 THEN 0 ELSE @ - 1]

(* Mutation: the flags are popped whether or not they are pushed.          *)
RestoreInputModesAlways(state) ==
    [state EXCEPT !.enhanced = FALSE, !.terminal = [Pop(@) EXCEPT !.paste = FALSE]]

(* ENHANCED_KEYS.swap: who comes first pops.                               *)
RestoreInputModes(state) ==
    [state EXCEPT !.enhanced = FALSE,
                  !.terminal = [(IF state.enhanced THEN Pop(@) ELSE @) EXCEPT !.paste = FALSE]]

(* ratatui::restore; the flags of the alternate screen stay on its stack.  *)
Leave(state) == [state EXCEPT !.terminal.alternate = FALSE, !.terminal.raw = FALSE]

Drop(state) == [Leave(RestoreInputModes(state)) EXCEPT !.step = "ended"]

Hook(state) == IF state.hooked THEN Leave(RestoreInputModes(state)) ELSE Leave(state)

-----------------------------------------------------------------------------
(* terminal(): each of its steps may fail, and the guard is dropped *)

Fail == scr.step \notin {"ended", "unwinding"} /\ scr' = Drop(scr)

InitTerminal ==
    /\ scr.step = "guarded"
    /\ \E raw, alternate \in BOOLEAN :
          LET state == [scr EXCEPT !.terminal.raw = raw, !.terminal.alternate = alternate] IN
          scr' = IF raw /\ alternate THEN [state EXCEPT !.step = "initialized"] ELSE Drop(state)

SetHook ==
    /\ scr.step = "initialized"
    /\ scr' = [scr EXCEPT !.step = "hooked", !.hooked = TRUE]

(* The flag is set before the keyboard flags are pushed.                   *)
StoreEnhanced ==
    /\ scr.step = "hooked"
    /\ scr' = [scr EXCEPT !.step = "enhanced", !.enhanced = TRUE]

PushKeys ==
    /\ scr.step = "enhanced"
    /\ scr' = [scr EXCEPT !.step = "pushed", !.terminal.flags = @ + 1]

EnablePaste ==
    /\ scr.step = "pushed"
    /\ scr' = [scr EXCEPT !.step = "running", !.terminal.paste = TRUE]

-----------------------------------------------------------------------------
(* The terminal loop ends, for a reason or by a panic *)

Exit == scr.step = "running" /\ scr' = Drop(scr)

(* The hook runs first, and the guard is dropped as the stack unwinds.     *)
Panic ==
    /\ scr.step \notin {"ended", "unwinding"}
    /\ scr' = [Hook(scr) EXCEPT !.step = "unwinding"]

Unwind == scr.step = "unwinding" /\ scr' = Drop(scr)

(* The worker exists while the loop runs, which then ends with its error.  *)
WorkerPanics == scr.step = "running" /\ scr' = Hook(scr)

-----------------------------------------------------------------------------
Init ==
    scr = [step |-> "guarded", terminal |-> Restored, hooked |-> FALSE, enhanced |-> FALSE]

Done == scr.step = "ended" /\ UNCHANGED scr

Next ==
    \/ InitTerminal \/ SetHook \/ StoreEnhanced \/ PushKeys \/ EnablePaste \/ Fail
    \/ Exit \/ Panic \/ Unwind \/ WorkerPanics
    \/ Done

Spec == Init /\ [][Next]_scr

-----------------------------------------------------------------------------
(* Properties *)

(* However the program ends, wherever it failed or panicked before, the    *)
(* terminal is as it was found: the flags it pushed are popped on their    *)
(* own screen and those of its caller never are.                           *)
ScreenRestored ==
    /\ scr.terminal.main = 1
    /\ scr.step = "ended" => scr.terminal = Restored

=============================================================================
