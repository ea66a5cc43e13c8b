----------------------------- MODULE AudioBridge -----------------------------
(***************************************************************************)
(* The audio of a station in the browser: one microphone, one AudioContext *)
(* and the socket its frames go to, opened and closed by calls, by the SDR *)
(* and by a change of device.  An action is what the bridge does between   *)
(* two awaits; permission prompts, a context that has to run first and the *)
(* end of close() come whenever the browser likes.                         *)
(* Browser, devices and the choice of an output are external.              *)
(***************************************************************************)
EXTENDS Integers, FiniteSets

CONSTANTS
    AudioCalls,     \* calls the station may get, one after the other
    MaxMics,        \* bound: microphones opened
    MaxContexts,    \* bound: contexts created
    MaxStops,       \* bound: stops and changes of microphone
    NoAudioCall

ASSUME AudioConstants == {MaxMics, MaxContexts, MaxStops} \subseteq Nat

VARIABLES
    context,        \* this.context: its id, 0 for undefined
    closed,         \* contexts that are closed
    stream,         \* this.stream (with its processor): the id of a microphone, 0 for undefined
    wired,          \* the context each microphone's processor sits in
    live,           \* microphones whose tracks run
    starting,       \* this.starting: the opening under way
    restarts,       \* restartCapture() calls under way: the contexts they hold on to
    toning,         \* the context a test tone or a ringback waits for
    stopping,       \* the context close() is awaited of, -1 when no stop is under way
    stopRequested,
    callId,         \* this.activeCallId and this.socket
    audioCall,      \* audioCall.current of the app
    made,           \* microphones and contexts made so far, and stops
    audioGhost      \* ghost: whether an opening met another one or a closing context; the
                    \* calls that began while a stop was under way

audioVars == <<context, closed, stream, wired, live, starting, restarts, toning, stopping,
               stopRequested, callId, audioCall, made, audioGhost>>

NoStart == [pc |-> "none"]
Contexts == 1..MaxContexts

AudioTypeOK ==
    /\ context \in 0..MaxContexts /\ closed \subseteq Contexts
    /\ stream \in 0..MaxMics /\ live \subseteq 1..MaxMics
    /\ wired \in [1..MaxMics -> 0..MaxContexts]
    /\ starting.pc \in {"none", "mic", "context", "sink"}
    /\ restarts \in [1..2 -> 0..MaxContexts] /\ toning \in 0..MaxContexts
    /\ stopping \in -1..MaxContexts /\ {callId, audioCall} \subseteq AudioCalls \cup {NoAudioCall}

AudioInit ==
    /\ context = 0 /\ closed = {} /\ stream = 0 /\ live = {}
    /\ wired = [m \in 1..MaxMics |-> 0]
    /\ starting = NoStart /\ restarts = [r \in 1..2 |-> 0] /\ toning = 0
    /\ stopping = -1 /\ stopRequested = FALSE
    /\ callId = NoAudioCall /\ audioCall = NoAudioCall
    /\ made = [mics |-> 0, contexts |-> 0, stops |-> 0, calls |-> {}]
    /\ audioGhost = [met |-> FALSE, crossed |-> {}]

Usable(c) == c # 0 /\ c \notin closed
Ready == context # 0 /\ stream # 0
Opening == starting # NoStart \/ \E r \in 1..2 : restarts[r] # 0

-----------------------------------------------------------------------------
(* Wrong on purpose: the opening of a station that was stopped goes on.    *)
StoppedNever == FALSE

(* What an opening asks after each await.                                  *)
Stopped == stopRequested

(* attachCapture(): the new stream replaces the old one, which nobody      *)
(* stops; a context that is being closed takes the processor all the same. *)
Attach(c, m) ==
    /\ stream' = m
    /\ wired' = [wired EXCEPT ![m] = c]
    /\ audioGhost' = [audioGhost EXCEPT !.met = @ \/ stream # 0 \/ c = stopping \/ c \in closed]

(* prepare(): nothing to do, or the opening under way is shared, stopped   *)
(* or not; otherwise a new one forgets earlier stops.                      *)
Prepare(nowStream, nowStop) ==
    IF (context # 0 /\ nowStream # 0) \/ starting # NoStart
    THEN stopRequested' = nowStop /\ UNCHANGED starting
    ELSE stopRequested' = FALSE /\ starting' = [pc |-> "mic"]

PrepareStation ==
    /\ ~Ready /\ starting = NoStart /\ made.mics < MaxMics
    /\ Prepare(stream, stopRequested)
    /\ UNCHANGED <<context, closed, stream, wired, live, restarts, toning, stopping, callId,
                   audioCall, made, audioGhost>>

(* getUserMedia() answers startInternal(): the context is there, or has to *)
(* be created and to run first.                                            *)
MicGranted ==
    /\ starting.pc = "mic" /\ made.mics < MaxMics
    /\ LET m == made.mics + 1 IN
       \/ /\ Stopped
          /\ starting' = NoStart /\ made' = [made EXCEPT !.mics = m]
          /\ UNCHANGED <<stream, wired, live, audioGhost>>
       \/ /\ ~Stopped /\ Usable(context)
          /\ starting' = [pc |-> "sink"] /\ live' = live \cup {m} /\ Attach(context, m)
          /\ made' = [made EXCEPT !.mics = m]
       \/ /\ ~Stopped /\ ~Usable(context) /\ made.contexts < MaxContexts
          /\ live' = live \cup {m}
          /\ starting' = [pc |-> "context", mic |-> m, context |-> made.contexts + 1]
          /\ made' = [made EXCEPT !.mics = m, !.contexts = @ + 1]
          /\ UNCHANGED <<stream, wired, audioGhost>>
    /\ UNCHANGED <<context, closed, restarts, toning, stopping, stopRequested, callId, audioCall>>

MicRefused ==
    /\ starting.pc = "mic"
    /\ starting' = NoStart
    /\ UNCHANGED <<context, closed, stream, wired, live, restarts, toning, stopping, stopRequested,
                   callId, audioCall, made, audioGhost>>

(* The context runs, or the browser keeps it suspended and it is closed.   *)
ContextRuns ==
    /\ starting.pc = "context"
    /\ LET m == starting.mic
           c == starting.context
       IN /\ context' = c
          /\ IF Stopped
             THEN starting' = NoStart /\ live' = live \ {m} /\ UNCHANGED <<stream, wired, audioGhost>>
             ELSE starting' = [pc |-> "sink"] /\ Attach(c, m) /\ UNCHANGED live
    /\ UNCHANGED <<closed, restarts, toning, stopping, stopRequested, callId, audioCall, made>>

ContextBlocked ==
    /\ starting.pc = "context"
    /\ live' = live \ {starting.mic} /\ closed' = closed \cup {starting.context}
    /\ starting' = NoStart
    /\ UNCHANGED <<context, stream, wired, restarts, toning, stopping, stopRequested, callId,
                   audioCall, made, audioGhost>>

(* refreshDevices() and applySink() end.                                   *)
StartEnds ==
    /\ starting.pc = "sink"
    /\ starting' = NoStart
    /\ UNCHANGED <<context, closed, stream, wired, live, restarts, toning, stopping, stopRequested,
                   callId, audioCall, made, audioGhost>>

-----------------------------------------------------------------------------
(* setInputDevice() with the microphone open: restartCapture() lets go of  *)
(* it and opens the other one for the context it found.                    *)
SetInputDevice(r) ==
    /\ Ready /\ Usable(context) /\ restarts[r] = 0 /\ made.stops < MaxStops
    /\ restarts' = [restarts EXCEPT ![r] = context]
    /\ stream' = 0 /\ live' = live \ {stream}
    /\ made' = [made EXCEPT !.stops = @ + 1]
    /\ UNCHANGED <<context, closed, wired, starting, toning, stopping, stopRequested, callId,
                   audioCall, audioGhost>>

RestartGranted(r) ==
    /\ restarts[r] # 0 /\ made.mics < MaxMics
    /\ restarts' = [restarts EXCEPT ![r] = 0]
    /\ LET m == made.mics + 1 IN
       /\ made' = [made EXCEPT !.mics = m]
       /\ IF Stopped \/ context = 0 THEN UNCHANGED <<stream, wired, live, audioGhost>>
          ELSE live' = live \cup {m} /\ Attach(restarts[r], m)
    /\ UNCHANGED <<context, closed, starting, toning, stopping, stopRequested, callId, audioCall>>

RestartRefused(r) ==
    /\ restarts[r] # 0
    /\ restarts' = [restarts EXCEPT ![r] = 0]
    /\ UNCHANGED <<context, closed, stream, wired, live, starting, toning, stopping, stopRequested,
                   callId, audioCall, made, audioGhost>>

(* playTestTone(), startRingback(): a context of their own if there is     *)
(* none yet.                                                               *)
ToneBegins ==
    /\ ~Usable(context) /\ toning = 0 /\ made.contexts < MaxContexts
    /\ toning' = made.contexts + 1
    /\ made' = [made EXCEPT !.contexts = @ + 1]
    /\ UNCHANGED <<context, closed, stream, wired, live, starting, restarts, stopping,
                   stopRequested, callId, audioCall, audioGhost>>

ToneRuns ==
    /\ toning # 0
    /\ toning' = 0
    /\ \/ context' = toning /\ UNCHANGED closed
       \/ closed' = closed \cup {toning} /\ UNCHANGED context
    /\ UNCHANGED <<stream, wired, live, starting, restarts, stopping, stopRequested, callId,
                   audioCall, made, audioGhost>>

-----------------------------------------------------------------------------
(* startAudio(): once per call; the socket and the call are noted before   *)
(* the microphone is ready.                                                *)
StartAudio(c) ==
    /\ audioCall = NoAudioCall /\ c \notin made.calls
    /\ audioCall' = c /\ callId' = c
    /\ made' = [made EXCEPT !.calls = @ \cup {c}]
    /\ Prepare(stream, stopRequested)
    /\ audioGhost' = [audioGhost EXCEPT !.crossed = IF stopping # -1 THEN @ \cup {c} ELSE @]
    /\ UNCHANGED <<context, closed, stream, wired, live, restarts, toning, stopping>>

(* stop() up to the close of its context.                                  *)
StopBegins ==
    /\ stopping = -1
    /\ stopping' = context
    /\ stream' = 0 /\ live' = live \ {stream}
    /\ UNCHANGED <<context, closed, wired, restarts, toning, callId>>

(* 'call_finished': the bridge stops and, when the SDR is available again, *)
(* is prepared at once, before close() has ended.                          *)
CallFinished(restored) ==
    /\ audioCall # NoAudioCall
    /\ audioCall' = NoAudioCall
    /\ StopBegins
    /\ IF restored THEN Prepare(0, TRUE) ELSE stopRequested' = TRUE /\ UNCHANGED starting
    /\ UNCHANGED <<made, audioGhost>>

(* Wrong on purpose: the SDR may go offline during a call.                 *)
StopAnyTime ==
    /\ made.stops < MaxStops
    /\ (Ready \/ starting # NoStart)
    /\ StopBegins
    /\ stopRequested' = TRUE
    /\ made' = [made EXCEPT !.stops = @ + 1]
    /\ UNCHANGED <<starting, audioCall, audioGhost>>

(* Going offline, a wrap-up that ends offline: stop() between two calls,   *)
(* for the button pauses nothing while the SDR is not available.           *)
StopStation ==
    /\ audioCall = NoAudioCall /\ made.stops < MaxStops
    /\ (Ready \/ starting # NoStart)
    /\ StopBegins
    /\ stopRequested' = TRUE
    /\ made' = [made EXCEPT !.stops = @ + 1]
    /\ UNCHANGED <<starting, audioCall, audioGhost>>

(* Whatever is there by now is forgotten with the closed context.          *)
StopEnds ==
    /\ stopping # -1
    /\ closed' = closed \cup ({stopping} \ {0})
    /\ context' = 0 /\ callId' = NoAudioCall
    /\ stopping' = -1
    /\ UNCHANGED <<stream, wired, live, starting, restarts, toning, stopRequested, audioCall, made,
                   audioGhost>>

AudioNext ==
    \/ PrepareStation \/ MicGranted \/ MicRefused \/ ContextRuns \/ ContextBlocked \/ StartEnds
    \/ \E r \in 1..2 : SetInputDevice(r) \/ RestartGranted(r) \/ RestartRefused(r)
    \/ ToneBegins \/ ToneRuns
    \/ \E c \in AudioCalls : StartAudio(c)
    \/ \E restored \in BOOLEAN : CallFinished(restored)
    \/ StopStation \/ StopEnds

AudioSpec == AudioInit /\ [][AudioNext]_audioVars

-----------------------------------------------------------------------------
Held == IF starting.pc = "context" THEN {starting.mic} ELSE {}

(* No microphone runs that the bridge has let go of, and none at all once  *)
(* it was stopped, whatever was under way: unless an opening finished over *)
(* another one or into a context that was being closed.                    *)
NoMicLeft ==
    \/ audioGhost.met
    \/ /\ live \subseteq ({stream} \cup Held)
       /\ stopRequested /\ ~Opening => live = {}

(* The frames of a call go to its socket until it is finished, unless the  *)
(* call began while the stop of the one before was still closing.          *)
CallKeepsSocket ==
    audioCall # NoAudioCall => callId = audioCall \/ audioCall \in audioGhost.crossed

(* The bridge holds what it opened, and a call its socket (AudioBridge.ts).*)
AudioInv == AudioTypeOK /\ NoMicLeft /\ CallKeepsSocket
=============================================================================
