--------------------------- MODULE StreamPipeline ---------------------------
(***************************************************************************)
(* The desktop stream (payloads/ghrdp-webrtc, Go).  A viewer opens a       *)
(* socket, which cancels the viewer before it, and a peer connection; once *)
(* the peer is connected a supervisor goroutine runs the capture pipeline  *)
(* and restarts it when it returns.  A run of the pipeline is a capture    *)
(* loop, an ffmpeg process between two OS pipes, a reader goroutine that   *)
(* cuts ffmpeg's output into access units and puts them into a bounded     *)
(* channel, and a sender goroutine that takes them out.  Desktop           *)
(* duplication is one per process; runs and a benchmark goroutine use it   *)
(* through the global dxgi, which nothing protects.  A nil dereference     *)
(* ends the process, and run-server.cmd starts it again.                   *)
(*                                                                         *)
(* A frame is a token; pixels, sizes and codecs are left out.  Ticks that  *)
(* change nothing (an unchanged screen, a frame dropped because the        *)
(* channel is filling up, a failed capture) are stuttering steps.          *)
(***************************************************************************)
EXTENDS Naturals, FiniteSets

CONSTANTS MaxViewers,   \* bound: sockets opened
          NoRun,        \* nobody holds the device, nil
          MaxRestarts,  \* maxPipelineRestarts (10 in the code)
          ChanCap,      \* capacity of outCh (4 in the code)
          PipeCap,      \* access units that fit into ffmpeg's stdout pipe
          EncQueue,     \* frames ffmpeg holds inside
          Scopes        \* bounds, each <<viewers that connect, faults that happen>>: faults
                        \* are encoders that fail or crash, bad frames, track errors

ASSUME StreamAssumption ==
  /\ MaxRestarts \in Nat \ {0} /\ ChanCap \in Nat \ {0, 1} /\ PipeCap \in Nat \ {0}
  /\ EncQueue \in Nat
  /\ MaxViewers \in Nat /\ Scopes \subseteq (0..MaxViewers) \X Nat
  /\ NoRun \notin Nat \X Nat

VARIABLES active,     \* the viewer whose cancel function is in activeCancel, 0 for none
          link,       \* the viewer's socket and peer connection
          cancelled,  \* the viewer's context is done
          sup,        \* the viewer's supervisor goroutine
          tries,      \* its loop counter
          phase,      \* the capture loop of a run
          ff,         \* the ffmpeg process of a run
          frames,     \* frames and access units in ffmpeg and its stdout pipe
          held,       \* access units in the reader's pending buffer
          chan,       \* access units in outCh
          reader,     \* readLoop of a run
          sender,     \* the goroutine that writes samples to the track
          device,     \* the run whose duplication of the desktop exists
          dxgi,       \* the run whose capturer the global dxgi points to
          took,       \* the runs that have deferred closeDXGI, until it returns
          wiped,      \* history: runs whose capturer another run's close cleared away
          bench,      \* the benchmark goroutine
          left        \* <<viewers, left>> that may still come

viewerVars == <<active, link, cancelled>>
supVars    == <<sup, tries>>
encVars    == <<ff, frames, held, chan, reader, sender>>
devVars    == <<device, dxgi, took, wiped, bench>>
streamVars == <<viewerVars, supVars, phase, encVars, devVars, left>>

(* Viewers are numbered in the order in which their sockets are opened. *)
Viewers == 1..MaxViewers

Runs == Viewers \X (0..MaxRestarts-1)

(* The run that belongs to the supervisor's present attempt. *)
Current(v) == <<v, tries[v]>>

StreamInit ==
  /\ active = 0
  /\ link = [v \in Viewers |-> "new"]
  /\ cancelled = [v \in Viewers |-> FALSE]
  /\ sup = [v \in Viewers |-> "none"]
  /\ tries = [v \in Viewers |-> 0]
  /\ phase = [r \in Runs |-> "none"]
  /\ ff = [r \in Runs |-> "none"]
  /\ frames = [r \in Runs |-> 0]
  /\ held = [r \in Runs |-> 0]
  /\ chan = [r \in Runs |-> 0]
  /\ reader = [r \in Runs |-> "none"]
  /\ sender = [r \in Runs |-> "none"]
  /\ device = NoRun /\ dxgi = NoRun /\ took = {} /\ wiped = {}
  /\ bench = "off"
  /\ left \in Scopes

(* Something goes wrong, while the bound allows it. *)
Fault == left[2] > 0 /\ left' = [left EXCEPT ![2] = @ - 1]

(* What was begun is over. *)
AllEnd(f, over) == [x \in DOMAIN f |-> IF f[x] \in {"new", "none"} THEN f[x] ELSE over]

(* The process dies of a nil dereference: sockets and goroutines end, ffmpeg *)
(* exits when its input does, Windows takes the device back, and a new       *)
(* process starts.                                                          *)
Panic ==
  /\ link' = AllEnd(link, "gone")
  /\ cancelled' = [v \in Viewers |-> link[v] # "new"]
  /\ sup' = AllEnd(sup, "ended")
  /\ phase' = AllEnd(phase, "end")
  /\ ff' = AllEnd(ff, "exited") /\ reader' = AllEnd(reader, "done") /\ sender' = AllEnd(sender, "done")
  /\ frames' = [r \in Runs |-> 0] /\ held' = frames' /\ chan' = frames'
  /\ device' = NoRun /\ dxgi' = NoRun /\ took' = {} /\ wiped' = {} /\ bench' = "off"
  /\ UNCHANGED <<active, tries, left>>

-----------------------------------------------------------------------------
(* Viewers: handleWS. *)

(* activeCancel of the viewer before, under activeMu. *)
CancelBefore(v) ==
  IF active = 0 THEN cancelled ELSE [cancelled EXCEPT ![active] = TRUE]

(* The socket is upgraded, the viewer before is cancelled and a peer         *)
(* connection made; when that fails the handler returns.                    *)
Connect(v) ==
  /\ v = active + 1 /\ left[1] > 0
  /\ active' = v
  /\ left' = [left EXCEPT ![1] = @ - 1]
  /\ \/ /\ link' = [link EXCEPT ![v] = "signalling"]
        /\ cancelled' = CancelBefore(v)
     \/ /\ link' = [link EXCEPT ![v] = "gone"]
        /\ cancelled' = [CancelBefore(v) EXCEPT ![v] = TRUE]
  /\ UNCHANGED <<supVars, phase, encVars, devVars>>

(* The peer connection reaches Connected; pipelineOnce starts the supervisor,*)
(* which does nothing for a viewer that has been cancelled meanwhile.       *)
PeerConnected(v) ==
  /\ link[v] = "signalling"
  /\ link' = [link EXCEPT ![v] = "peer"]
  /\ sup' = [sup EXCEPT ![v] = IF cancelled[v] THEN "ended" ELSE "run"]
  /\ UNCHANGED <<active, cancelled, tries, phase, encVars, devVars, left>>

(* The peer connection fails or is closed, or reading the socket fails and   *)
(* the handler returns through its deferred calls: either cancels, and      *)
(* nothing else comes of it once the supervisor has been started.           *)
Leave(v) ==
  /\ \/ link[v] = "signalling" /\ link' = [link EXCEPT ![v] = "gone"]
     \/ link[v] = "peer" /\ ~cancelled[v] /\ UNCHANGED link
  /\ cancelled' = [cancelled EXCEPT ![v] = TRUE]
  /\ UNCHANGED <<active, supVars, phase, encVars, devVars, left>>

-----------------------------------------------------------------------------
(* The supervisor: supervisePipeline. *)

(* The pipeline has returned: the supervisor ends with the viewer, gives up  *)
(* after its last attempt, or waits before the next one.                    *)
AfterRun(v) ==
  IF cancelled[v] THEN "ended"
  ELSE IF tries[v] + 1 = MaxRestarts THEN "gaveup" ELSE "backoff"

(* runCapturePipeline has returned in run r: the attempt is counted, whether *)
(* the run streamed for a second or for a day.                              *)
Return(r) ==
  /\ sup' = [sup EXCEPT ![r[1]] = AfterRun(r[1])]
  /\ tries' = [tries EXCEPT ![r[1]] = IF AfterRun(r[1]) = "backoff" THEN @ + 1 ELSE @]
  /\ phase' = [phase EXCEPT ![r] = "end"]

(* The wait before a restart ends, by its timer or by the context. *)
Backoff(v) ==
  /\ sup[v] = "backoff"
  /\ \/ sup' = [sup EXCEPT ![v] = "run"]
     \/ cancelled[v] /\ sup' = [sup EXCEPT ![v] = "ended"]
  /\ UNCHANGED <<viewerVars, tries, phase, encVars, devVars, left>>

-----------------------------------------------------------------------------
(* One run: runCapturePipeline. *)

(* initDXGI: the run duplicates the desktop, which Windows lets a process do *)
(* once at a time, or falls back to GDI (the only way without a GPU).       *)
Duplicate(v) ==
  LET r == Current(v) IN
  /\ sup[v] = "run" /\ phase[r] = "none"
  /\ \/ /\ device = NoRun /\ device' = r
        /\ phase' = [phase EXCEPT ![r] = "init"]
     \/ /\ phase' = [phase EXCEPT ![r] = "encode"] /\ UNCHANGED device
  /\ UNCHANGED <<viewerVars, supVars, encVars, dxgi, took, wiped, bench, left>>

(* The capturer is stored in the global, unless the rest of initDXGI fails   *)
(* and gives the duplication back.                                          *)
Stores(r) ==
  /\ phase[r] = "init"
  /\ \/ /\ dxgi' = r /\ took' = took \cup {r}
        /\ phase' = [phase EXCEPT ![r] = "stored"]
        /\ UNCHANGED <<device, left>>
     \/ /\ Fault /\ device' = NoRun
        /\ phase' = [phase EXCEPT ![r] = "encode"]
        /\ UNCHANGED <<dxgi, took>>
  /\ UNCHANGED <<viewerVars, supVars, encVars, wiped, bench>>

(* The size of the screen is logged, read through the global. *)
LogsSize(r) ==
  /\ phase[r] = "stored"
  /\ \/ dxgi = NoRun /\ Panic
     \/ /\ dxgi # NoRun
        /\ phase' = [phase EXCEPT ![r] = "encode"]
        /\ UNCHANGED <<viewerVars, supVars, encVars, devVars, left>>

\* mutant: closeDXGI is not deferred
ReturnAtOnce(r) == Return(r)

(* The run is left: through closeDXGI, if initDXGI had succeeded. *)
LeaveRun(r) ==
  IF r \in took THEN phase' = [phase EXCEPT ![r] = "check"] /\ UNCHANGED supVars ELSE Return(r)

(* The first run starts the benchmark.  With newEncoder, ffmpeg, the reader  *)
(* and the sender run; the first frame is captured and has the expected     *)
(* size, or the run goes to its deferred calls.                             *)
Encode(r) ==
  /\ phase[r] = "encode"
  /\ bench' = IF bench = "off" THEN "gdi" ELSE bench
  /\ \/ /\ ff' = [ff EXCEPT ![r] = "up"]
        /\ reader' = [reader EXCEPT ![r] = "reading"]
        /\ sender' = [sender EXCEPT ![r] = "sending"]
        /\ \/ phase' = [phase EXCEPT ![r] = "write"] /\ UNCHANGED left
           \/ phase' = [phase EXCEPT ![r] = "close"] /\ Fault
        /\ UNCHANGED <<supVars, frames, held, chan>>
     \/ Fault /\ LeaveRun(r) /\ UNCHANGED encVars
  /\ UNCHANGED <<viewerVars, device, dxgi, took, wiped>>

(* The loop does not capture while the channel is filling up.  A select that *)
(* could take ctx.Done() does: a tick taken first is a tick before the end. *)
Room(r) == chan[r] < ChanCap - 1

(* A tick finds a changed frame of the right size; the loop now writes it. *)
Tick(r) ==
  /\ phase[r] = "loop" /\ ~cancelled[r[1]] /\ Room(r)
  /\ phase' = [phase EXCEPT ![r] = "write"]
  /\ UNCHANGED <<viewerVars, supVars, encVars, devVars, left>>

(* A tick finds a frame of the wrong size: the guard trips. *)
GuardTrip(r) ==
  /\ phase[r] = "loop" /\ ~cancelled[r[1]] /\ Room(r) /\ Fault
  /\ phase' = [phase EXCEPT ![r] = "close"]
  /\ UNCHANGED <<viewerVars, supVars, encVars, devVars>>

(* The loop's select takes ctx.Done(). *)
LoopSeesDone(r) ==
  /\ phase[r] = "loop" /\ cancelled[r[1]]
  /\ phase' = [phase EXCEPT ![r] = "close"]
  /\ UNCHANGED <<viewerVars, supVars, encVars, devVars, left>>

(* writeFrame: ffmpeg takes a frame while it has room inside, so the write   *)
(* blocks while nobody reads its stdout; with ffmpeg gone it fails.         *)
Write(r) ==
  /\ phase[r] = "write"
  /\ \/ /\ ff[r] = "up" /\ frames[r] < EncQueue + PipeCap
        /\ frames' = [frames EXCEPT ![r] = @ + 1]
        /\ phase' = [phase EXCEPT ![r] = "loop"]
     \/ /\ ff[r] = "exited"
        /\ phase' = [phase EXCEPT ![r] = "close"]
        /\ UNCHANGED frames
  /\ UNCHANGED <<viewerVars, supVars, ff, held, chan, reader, sender, devVars, left>>

(* The deferred enc.close(): stdin is closed and ffmpeg, unless it crashed,  *)
(* exits once it can flush; cmd.Wait sees the exit and closes the read end  *)
(* of its stdout.  Then closeDXGI, if it was deferred.                      *)
Close(r) ==
  /\ phase[r] = "close" /\ (ff[r] = "up" => frames[r] <= PipeCap)
  /\ ff' = [ff EXCEPT ![r] = "exited"]
  /\ frames' = [frames EXCEPT ![r] = 0]
  /\ LeaveRun(r)
  /\ UNCHANGED <<viewerVars, held, chan, reader, sender, devVars, left>>

(* closeDXGI does nothing when the global is nil. *)
CheckNil(r) ==
  /\ phase[r] = "check"
  /\ IF dxgi = NoRun THEN Return(r) /\ took' = took \ {r}
     ELSE phase' = [phase EXCEPT ![r] = "release"] /\ UNCHANGED <<supVars, took>>
  /\ UNCHANGED <<viewerVars, encVars, device, dxgi, wiped, bench, left>>

(* It releases the duplication of the capturer it finds in the global. *)
Release(r) ==
  /\ phase[r] = "release"
  /\ \/ dxgi = NoRun /\ Panic
     \/ /\ dxgi # NoRun
        /\ device' = IF device = dxgi THEN NoRun ELSE device
        /\ phase' = [phase EXCEPT ![r] = "clear"]
        /\ UNCHANGED <<viewerVars, supVars, encVars, dxgi, took, wiped, bench, left>>

(* A capture under way reads the global again and again. *)
Capturing(r) == r \in took /\ phase[r] \in {"encode", "loop"}

(* The rest is read through the global, which is then set to nil: whoever's  *)
(* capturer it holds by now.                                                *)
Clear(r) ==
  /\ phase[r] = "clear"
  /\ \/ /\ dxgi' = NoRun
        /\ wiped' = wiped \cup ({dxgi} \ {r, NoRun})
        /\ Return(r) /\ took' = took \ {r}
        /\ UNCHANGED <<viewerVars, encVars, device, bench, left>>
     \/ /\ dxgi = NoRun \/ (dxgi # r /\ Capturing(dxgi))
        /\ Panic

(* ffmpeg crashes. *)
FfmpegCrash(r) ==
  /\ ff[r] = "up" /\ phase[r] # "close" /\ Fault
  /\ ff' = [ff EXCEPT ![r] = "exited"]
  /\ UNCHANGED <<viewerVars, supVars, phase, frames, held, chan, reader, sender, devVars>>

-----------------------------------------------------------------------------
(* readLoop *)

\* mutant: the reader waits for room in the channel
ReadWaiting(r) ==
  /\ reader[r] = "reading" /\ frames[r] > 0
  /\ held[r] = 1 => chan[r] < ChanCap
  /\ frames' = [frames EXCEPT ![r] = @ - 1]
  /\ held' = [held EXCEPT ![r] = 1]
  /\ chan' = [chan EXCEPT ![r] = @ + held[r]]
  /\ UNCHANGED <<viewerVars, supVars, phase, ff, reader, sender, devVars, left>>

(* The start of the next access unit completes the one held back, which goes *)
(* into the channel or, when that is full, is dropped.                      *)
Read(r) ==
  /\ reader[r] = "reading" /\ frames[r] > 0
  /\ frames' = [frames EXCEPT ![r] = @ - 1]
  /\ held' = [held EXCEPT ![r] = 1]
  /\ chan' = [chan EXCEPT ![r] = IF @ < ChanCap THEN @ + held[r] ELSE @]
  /\ UNCHANGED <<viewerVars, supVars, phase, ff, reader, sender, devVars, left>>

(* The end of the output: what is held back is sent on, and here the reader  *)
(* does wait for room; then the channel is closed.                          *)
ReadEof(r) ==
  /\ reader[r] = "reading" /\ frames[r] = 0 /\ ff[r] = "exited"
  /\ chan[r] + held[r] <= ChanCap
  /\ chan' = [chan EXCEPT ![r] = @ + held[r]]
  /\ held' = [held EXCEPT ![r] = 0]
  /\ reader' = [reader EXCEPT ![r] = "done"]
  /\ UNCHANGED <<viewerVars, supVars, phase, ff, frames, sender, devVars, left>>

-----------------------------------------------------------------------------
(* The sender goroutine. *)

(* An access unit is written to the track; an error ends the goroutine. *)
Send(r) ==
  /\ sender[r] = "sending" /\ ~cancelled[r[1]] /\ chan[r] > 0
  /\ chan' = [chan EXCEPT ![r] = @ - 1]
  /\ \/ UNCHANGED <<sender, left>>
     \/ sender' = [sender EXCEPT ![r] = "failed"] /\ Fault
  /\ UNCHANGED <<viewerVars, supVars, phase, ff, frames, held, reader, devVars>>

\* mutant: an empty channel ends the goroutine
DrainedWhenEmpty(r) == chan[r] = 0

(* The channel is closed and empty. *)
Drained(r) == chan[r] = 0 /\ reader[r] = "done"

SenderEnds(r) ==
  /\ sender[r] = "sending" /\ Drained(r)
  /\ sender' = [sender EXCEPT ![r] = "done"]
  /\ UNCHANGED <<viewerVars, supVars, phase, ff, frames, held, chan, reader, devVars, left>>

(* Its select takes ctx.Done(). *)
SenderSeesDone(r) ==
  /\ sender[r] = "sending" /\ cancelled[r[1]]
  /\ sender' = [sender EXCEPT ![r] = "done"]
  /\ UNCHANGED <<viewerVars, supVars, phase, ff, frames, held, chan, reader, devVars, left>>

-----------------------------------------------------------------------------
(* benchmarkCapture: two hundred frames with GDI and, when the global is not *)
(* nil by then, as many through it; a size is logged after the last.  That   *)
(* it ends changes nothing for the others: it takes no further step.        *)
Benchmark ==
  \/ /\ bench = "gdi" /\ dxgi # NoRun
     /\ bench' = "dxgi"
     /\ UNCHANGED <<viewerVars, supVars, phase, encVars, device, dxgi, took, wiped, left>>
  \/ bench = "dxgi" /\ dxgi = NoRun /\ Panic

-----------------------------------------------------------------------------
ViewerStep(v) == Connect(v) \/ PeerConnected(v) \/ Leave(v)

SupervisorStep(v) == Backoff(v) \/ Duplicate(v)

LoopStep(r) ==
  \/ Stores(r) \/ LogsSize(r) \/ Encode(r)
  \/ Tick(r) \/ GuardTrip(r) \/ LoopSeesDone(r) \/ Write(r)
  \/ Close(r) \/ CheckNil(r) \/ Release(r) \/ Clear(r)

ReaderStep(r) == Read(r) \/ ReadEof(r)

SenderStep(r) == Send(r) \/ SenderEnds(r) \/ SenderSeesDone(r)

StreamNext ==
  \/ \E v \in Viewers : ViewerStep(v) \/ SupervisorStep(v)
  \/ \E r \in Runs : LoopStep(r) \/ FfmpegCrash(r) \/ ReaderStep(r) \/ SenderStep(r)
  \/ Benchmark

(* Goroutines that can go on do, and the screen changes again and again.    *)
(* Viewers, crashes and errors are not promised.                            *)
StreamFairness ==
  /\ \A v \in Viewers : WF_streamVars(SupervisorStep(v))
  /\ \A r \in Runs :
       /\ WF_streamVars(LoopStep(r)) /\ WF_streamVars(ReaderStep(r)) /\ WF_streamVars(SenderStep(r))

StreamSpec == StreamInit /\ [][StreamNext]_streamVars /\ StreamFairness
-----------------------------------------------------------------------------
(* Properties *)

HasDevice == {"init", "stored", "encode", "loop", "write", "close", "check", "release"}

InPipeline == HasDevice \cup {"clear"}

StreamTypeOK ==
  /\ active \in 0..MaxViewers
  /\ link \in [Viewers -> {"new", "signalling", "peer", "gone"}]
  /\ cancelled \in [Viewers -> BOOLEAN]
  /\ sup \in [Viewers -> {"none", "backoff", "run", "ended", "gaveup"}]
  /\ tries \in [Viewers -> 0..MaxRestarts-1]
  /\ phase \in [Runs -> InPipeline \cup {"none", "end"}]
  /\ ff \in [Runs -> {"none", "up", "exited"}]
  /\ frames \in [Runs -> 0..EncQueue+PipeCap]
  /\ held \in [Runs -> 0..1]
  /\ chan \in [Runs -> 0..ChanCap]
  /\ reader \in [Runs -> {"none", "reading", "done"}]
  /\ sender \in [Runs -> {"none", "sending", "failed", "done"}]
  /\ device \in Runs \cup {NoRun} /\ dxgi \in Runs \cup {NoRun}
  /\ took \subseteq Runs /\ wiped \subseteq Runs
  /\ bench \in {"off", "gdi", "dxgi"}
  /\ left \in (0..MaxViewers) \X Nat

(* Of all viewers that are or were connected at most one is not cancelled:  *)
(* two pipelines capture at once only while the older one is ending.        *)
(* (handleWS, main.go:230-237)                                              *)
OneWatched ==
  \A v, w \in Viewers :
    /\ link[v] # "new" /\ link[w] # "new"
    /\ ~cancelled[v] /\ ~cancelled[w]
    => v = w

(* Desktop duplication is held by a run that is under way: whichever way a  *)
(* run ends it gives the device back, or every later viewer would get GDI.  *)
(* It keeps it for the life of the process in one case only: another run's   *)
(* closeDXGI, between releasing its own duplication and setting the global   *)
(* to nil, cleared the capturer away that this run had stored meanwhile.    *)
(* (main.go:396-405, capture_dxgi_windows.go:294-306)                       *)
DeviceHeld == device # NoRun => phase[device] \in HasDevice \/ device \in wiped

(* The desktop is captured for one viewer: one is watched, and the device is *)
(* not left with a run that is over, but for that case. With it the types.  *)
OneCapture == StreamTypeOK /\ OneWatched /\ DeviceHeld

(* A takeover leaves nothing behind: the cancelled viewer's supervisor ends, *)
(* and the ffmpeg of each of its runs exits, also when nobody takes access   *)
(* units any more. (ctx.Done() in three goroutines, a reader that never      *)
(* waits)                                                                   *)
TornDown ==
  \A v \in Viewers :
    cancelled[v] ~> /\ sup[v] \in {"none", "ended", "gaveup"}
                    /\ \A r \in Runs : r[1] = v => ff[r] # "up"

(* A run that stays in its loop with ffmpeg alive keeps sending frames: the  *)
(* three goroutines and the two bounded buffers never wait for one another  *)
(* for good, and the sender only ends with the viewer, with ffmpeg or on an *)
(* error of the track.                                                      *)
Streaming(r) ==
  /\ ~cancelled[r[1]]
  /\ phase[r] \in {"loop", "write"} /\ ff[r] = "up" /\ sender[r] # "failed"

FramesFlow ==
  \A r \in Runs : <>[]Streaming(r) => []<><<Send(r)>>_streamVars

(* After a run that ended, and while attempts are left, the viewer gets     *)
(* another one unless it is cancelled (the regression pipeline_test.go:14). *)
PipelineBack ==
  \A r \in Runs :
    r[2] + 1 < MaxRestarts =>
      (phase[r] = "end" ~> \/ cancelled[r[1]]
                           \/ phase[<<r[1], r[2] + 1>>] # "none")

(* The viewer who stays keeps getting frames or a new pipeline: neither the  *)
(* buffers nor the restarts come to a standstill.                           *)
StreamGoesOn == FramesFlow /\ PipelineBack
-----------------------------------------------------------------------------
(* The inductive invariant: sockets are opened one after another, and each   *)
(* opening cancels the viewer before, so all but the last are cancelled.    *)
OlderCancelled ==
  \A v \in Viewers : link[v] # "new" => v <= active /\ (v # active => cancelled[v])

(* Until it calls closeDXGI a run that stored its capturer holds the device,  *)
(* and the global points to that capturer, or a wipe set it to nil; and     *)
(* nobody but such a run, one that was wiped or one inside initDXGI holds   *)
(* the device.                                                              *)
CapturerOK ==
  /\ device # NoRun => phase[device] = "init" \/ device \in took \cup wiped
  /\ \A r \in Runs : phase[r] = "init" => device = r
  /\ \A r \in Runs : phase[r] \in {"stored", "check", "release"} => r \in took
  /\ dxgi \in took \cup {NoRun}
  /\ \A r \in took \cup wiped : phase[r] \notin {"none", "init"}
  /\ \A r \in took :
       phase[r] \in HasDevice => device = r /\ (dxgi = r \/ (dxgi = NoRun /\ r \in wiped))

StreamInv == StreamTypeOK /\ OlderCancelled /\ DeviceHeld /\ CapturerOK
=============================================================================
