---- MODULE PlatformModules ----
\* The modules of the native platform.
\*
\* The terminal that shows a debug build's output: the process captures
\* its streams in a file, a viewer in a window of its own follows the file
\* and is told over a socket when to start and that the process ended.
\* Either may fail, be closed or be killed at any moment, and whichever is
\* last is to remove the capture, but not before it was shown.
\*
\* A window, whose sizes change by calls and by callbacks that arrive
\* inside those calls or with a later poll; listeners that are told of a
\* change may change the window again or throw, and a failure inside a
\* callback waits for the owner of the platform.  The library below is
\* opened by the first display and closed by the last.
EXTENDS Integers, Sequences, FiniteSets

CONSTANTS Emulators,    \* how many terminal emulators are tried
          MaxLooks,     \* bound: polls until the launch times out
          MaxWrites     \* bound: what the application writes

VARIABLES
    session,    \* the process: where it is, and the flags of its Session
    streams,    \* where its two streams lead: "capture" or "original"
    window,     \* the emulator: "none", "open", "gone", or "reaped" by the process
    viewer,     \* the viewer process inside it
    control,    \* the control socket: messages to either side, who has closed
    disk,       \* what exists of the capture directory
    written,    \* history: writes that went to the capture
    attended    \* history: FALSE once the viewer was closed, killed or could not write

terminalVars == <<session, streams, window, viewer, control, disk, written, attended>>

Both == {"stdout", "stderr"}
Files == {"directory", "output", "socket"}
NoViewer == [at |-> "none", closed |-> FALSE, retained |-> FALSE, normal |-> FALSE, shown |-> 0, drained |-> "none"]

TerminalInit ==
  /\ session = [at |-> "save", tried |-> 0, looks |-> 0, known |-> FALSE, committed |-> FALSE, reaper |-> "none",
                closed |-> FALSE, notified |-> FALSE, failed |-> FALSE, writes |-> 0]
  /\ streams = [s \in Both |-> "original"]
  /\ window = "none" /\ viewer = NoViewer
  /\ control = [listens |-> FALSE, connected |-> FALSE, accepted |-> FALSE, up |-> <<>>, down |-> <<>>, ownerEnd |-> FALSE, viewerEnd |-> FALSE]
  /\ disk = {} /\ written = 0 /\ attended = TRUE

--------------------
\* Starting.  A step that fails lets the candidate be destroyed.
Start(at) == session.at = at
StartFails == session' = [session EXCEPT !.at = "finish", !.failed = TRUE]
            /\ UNCHANGED <<streams, window, viewer, control, disk, written, attended>>

SaveStreams == Start("save") /\ session' = [session EXCEPT !.at = "directory"]
    /\ UNCHANGED <<streams, window, viewer, control, disk, written, attended>>
CreateFile == \E f \in Files :
    /\ Start(f)
    /\ session' = [session EXCEPT !.at = IF f = "directory" THEN "output" ELSE IF f = "output" THEN "socket" ELSE "launch"]
    /\ disk' = disk \cup {f}
    /\ control' = [control EXCEPT !.listens = f = "socket"]
    /\ UNCHANGED <<streams, window, viewer, written, attended>>

\* launch(): the next emulator when one is not installed.
LaunchEmulator ==
  /\ Start("launch") /\ session.tried < Emulators
  /\ \/ /\ session' = [session EXCEPT !.at = "await", !.known = TRUE]
        /\ window' = "open" /\ viewer' = [viewer EXCEPT !.at = "connect"]
     \/ session' = [session EXCEPT !.tried = @ + 1] /\ UNCHANGED <<window, viewer>>
  /\ UNCHANGED <<streams, control, disk, written, attended>>

\* await_viewer(): a connection, an emulator that ended, or another look.
AcceptViewer ==
  /\ Start("await") /\ session.looks < MaxLooks /\ control.connected
  /\ session' = [session EXCEPT !.at = "acknowledge"] /\ control' = [control EXCEPT !.accepted = TRUE]
  /\ UNCHANGED <<streams, window, viewer, disk, written, attended>>
LookAgain ==
  /\ Start("await") /\ session.looks < MaxLooks /\ ~control.connected
  /\ IF window = "gone"
     THEN window' = "reaped" /\ session' = [session EXCEPT !.known = FALSE, !.at = "finish", !.failed = TRUE]
     ELSE session' = [session EXCEPT !.looks = @ + 1] /\ UNCHANGED window
  /\ UNCHANGED <<streams, viewer, control, disk, written, attended>>
TakeAcknowledgement ==
  /\ Start("acknowledge") /\ control.up # <<>>
  /\ session' = [session EXCEPT !.at = "stdout"]
  /\ control' = [control EXCEPT !.up = Tail(@), !.listens = FALSE]
  /\ UNCHANGED <<streams, window, viewer, disk, written, attended>>
Capture == \E s \in Both :
    /\ Start(s) /\ streams' = [streams EXCEPT ![s] = "capture"]
    /\ session' = [session EXCEPT !.at = IF s = "stdout" THEN "stderr" ELSE "tell"]
    /\ UNCHANGED <<window, viewer, control, disk, written, attended>>
\* send_control() succeeds while the viewer has its end open.
TellStarted ==
  /\ Start("tell") /\ control.viewerEnd
  /\ control' = [control EXCEPT !.down = Append(@, "started")]
  /\ session' = [session EXCEPT !.at = "register", !.reaper = "watching"]
  /\ UNCHANGED <<streams, window, viewer, disk, written, attended>>
RegisterExit ==
  /\ Start("register") /\ session' = [session EXCEPT !.at = "run", !.committed = TRUE]
  /\ UNCHANGED <<streams, window, viewer, control, disk, written, attended>>
StartFailure ==
  /\ \/ session.at \in {"save", "launch", "acknowledge", "register", "tell"} \cup Files \cup Both
     \/ Start("await") /\ (session.looks = MaxLooks \/ control.connected)
  /\ StartFails
--------------------
\* The application, its reaper, and the end of the process.
WriteOutput == \E s \in Both :
    /\ Start("run") /\ session.writes < MaxWrites
    /\ session' = [session EXCEPT !.writes = @ + 1]
    /\ written' = IF streams[s] = "capture" THEN written + 1 ELSE written
    /\ UNCHANGED <<streams, window, viewer, control, disk, attended>>
ReapWindow ==
  /\ session.reaper = "watching" /\ window = "gone"
  /\ session' = [session EXCEPT !.reaper = "returned", !.closed = TRUE] /\ window' = "reaped"
  /\ UNCHANGED <<streams, viewer, control, disk, written, attended>>
Exit ==
  /\ Start("run") /\ session' = [session EXCEPT !.at = IF session.committed THEN "finish" ELSE "ended"]
  /\ UNCHANGED <<streams, window, viewer, control, disk, written, attended>>
Crash ==
  /\ session.at # "ended" /\ session.at # "crashed"
  /\ session' = [session EXCEPT !.at = "crashed", !.reaper = "none"]
  /\ control' = [control EXCEPT !.ownerEnd = FALSE, !.listens = FALSE]
  /\ UNCHANGED <<streams, window, viewer, disk, written, attended>>

\* finish(): first the streams, then the viewer's notice.
Restore ==
  /\ Start("finish") /\ session' = [session EXCEPT !.at = "notify"]
  /\ streams' = [s \in Both |-> "original"]
  /\ UNCHANGED <<window, viewer, control, disk, written, attended>>
Notify ==
  /\ Start("notify")
  /\ LET heard == control.accepted /\ control.viewerEnd
     IN /\ session' = [session EXCEPT !.at = "stop", !.notified = heard]
        /\ control' = [control EXCEPT !.down = IF heard THEN Append(@, "normal") ELSE @, !.ownerEnd = @ /\ ~control.accepted]
  /\ UNCHANGED <<streams, window, viewer, disk, written, attended>>
\* A viewer whose terminal goes is hung up: its handler only sets a flag,
\* before that is installed the signal kills.
LeaveViewer == viewer' = [viewer EXCEPT !.at = "ended"] /\ control' = [control EXCEPT !.viewerEnd = FALSE]
IsHandled == viewer.at \in {"drain", "decide", "poll", "remove"}
HangUp ==
  /\ attended' = FALSE
  /\ IF IsHandled THEN viewer' = [viewer EXCEPT !.closed = TRUE] /\ UNCHANGED control ELSE LeaveViewer

\* The reaper is joined; a viewer that was not committed to is killed.
StopReaper ==
  /\ Start("stop") /\ session' = [session EXCEPT !.at = "clean", !.reaper = "none"]
  /\ IF ~session.committed /\ session.known
     THEN /\ window' = "reaped"
          /\ IF window = "open" /\ viewer.at # "ended" THEN HangUp ELSE UNCHANGED <<viewer, control, attended>>
     ELSE UNCHANGED <<window, viewer, control, attended>>
  /\ UNCHANGED <<streams, disk, written>>

\* Mutant: a viewer that was told is always left to remove the capture.
OwnerRemovesUntold == ~session.notified \/ ~session.committed

OwnerRemoves == ~session.notified \/ ~session.committed \/ session.closed
CleanUp ==
  /\ Start("clean")
  /\ session' = [session EXCEPT !.at = IF session.committed THEN "ended" ELSE "run"]
  /\ disk' = IF OwnerRemoves THEN {} ELSE disk
  /\ control' = [control EXCEPT !.listens = FALSE, !.ownerEnd = FALSE]
  /\ UNCHANGED <<streams, window, viewer, written, attended>>
--------------------
\* The viewer.
View(at) == viewer.at = at

ConnectViewer ==
  /\ View("connect")
  /\ IF control.listens
     THEN /\ control' = [control EXCEPT !.connected = TRUE, !.viewerEnd = TRUE, !.ownerEnd = TRUE, !.up = Append(@, "ready")]
          /\ viewer' = [viewer EXCEPT !.at = "ready"]
     ELSE LeaveViewer
  /\ UNCHANGED <<session, streams, window, disk, written, attended>>
\* The first message must be the start; an end of the stream is none.
AwaitStart ==
  /\ View("ready") /\ (control.down # <<>> \/ ~control.ownerEnd)
  /\ IF control.down # <<>> /\ Head(control.down) = "started" /\ "output" \in disk
     THEN viewer' = [viewer EXCEPT !.at = "drain"] /\ control' = [control EXCEPT !.down = Tail(@)]
     ELSE LeaveViewer
  /\ UNCHANGED <<session, streams, window, disk, written, attended>>
\* drain(): up to a number of chunks, or the terminal takes no more.
Drain ==
  /\ View("drain") /\ ~viewer.closed
  /\ \/ \E n \in viewer.shown..written :
           /\ viewer' = [viewer EXCEPT !.at = "decide", !.shown = n, !.drained = IF n = written THEN "empty" ELSE "pending"]
           /\ UNCHANGED attended
     \/ viewer' = [viewer EXCEPT !.at = "decide", !.drained = "closed"] /\ attended' = FALSE
  /\ UNCHANGED <<session, streams, window, control, disk, written>>

\* Mutant: the notice of a normal exit ends the viewer.
LeavesAtOnce == viewer.closed \/ viewer.drained = "closed" \/ viewer.normal

Leaves == viewer.drained = "closed" \/ (viewer.normal /\ viewer.drained = "empty")
Decide ==
  /\ View("decide") /\ viewer' = [viewer EXCEPT !.at = IF Leaves THEN "remove" ELSE "poll"]
  /\ UNCHANGED <<session, streams, window, control, disk, written, attended>>
\* poll(): the channel only until it has said how the process ended.
PollChannel ==
  /\ View("poll")
  /\ LET listens == ~viewer.retained /\ ~viewer.normal
         told == listens /\ control.down # <<>>
         ends == listens /\ control.down = <<>> /\ ~control.ownerEnd
     IN /\ viewer' = [viewer EXCEPT !.at = "drain", !.normal = @ \/ told, !.retained = @ \/ ends]
        /\ control' = IF told THEN [control EXCEPT !.down = Tail(@)] ELSE control
  /\ UNCHANGED <<session, streams, window, disk, written, attended>>
CloseLoop ==
  /\ View("drain") /\ viewer.closed /\ viewer' = [viewer EXCEPT !.at = "remove"]
  /\ UNCHANGED <<session, streams, window, control, disk, written, attended>>
RemoveCapture ==
  /\ View("remove") /\ LeaveViewer
  /\ disk' = IF viewer.normal \/ viewer.retained THEN {} ELSE disk
  /\ UNCHANGED <<session, streams, window, written, attended>>
--------------------
\* External: the window is closed, or the emulator ends with its viewer.
CloseWindow ==
  /\ window = "open" /\ viewer.at # "ended" /\ window' = "gone" /\ HangUp
  /\ UNCHANGED <<session, streams, disk, written>>
EndWindow ==
  /\ window = "open" /\ viewer.at = "ended" /\ window' = "gone"
  /\ UNCHANGED <<session, streams, viewer, control, disk, written, attended>>

TerminalNext ==
  \/ SaveStreams \/ CreateFile \/ LaunchEmulator \/ AcceptViewer \/ LookAgain \/ TakeAcknowledgement
  \/ Capture \/ TellStarted \/ RegisterExit \/ StartFailure
  \/ WriteOutput \/ ReapWindow \/ Exit \/ Crash \/ Restore \/ Notify \/ StopReaper \/ CleanUp
  \/ ConnectViewer \/ AwaitStart \/ Drain \/ Decide \/ PollChannel \/ CloseLoop \/ RemoveCapture
  \/ CloseWindow \/ EndWindow
--------------------
\* An application that runs has both streams captured by a viewer that was
\* started, or neither and nothing left of the attempt; what was captured is
\* not removed before it was shown, unless nobody watched; and once both
\* processes ended in order nothing is left on disk, unless the window was
\* closed too late for the reaper to see it.
RunsWhole ==
  /\ session.at = "run" => \E to \in {"capture", "original"} : \A s \in Both : streams[s] = to
  /\ session.at = "run" /\ ~session.committed => disk = {} /\ window \in {"none", "reaped"}
  /\ session.at = "ended" => \A s \in Both : streams[s] = "original"
ShownBeforeRemoved == written > 0 /\ disk = {} /\ attended => viewer.shown = written
NothingStays ==
  session.at = "ended" /\ viewer.at \in {"none", "ended"} /\ disk # {} => ~attended /\ ~session.closed
TerminalEndsClean == RunsWhole /\ ShownBeforeRemoved /\ NothingStays

--------------------
\* A window of the native platform, and the library below it.

CONSTANTS Sizes,        \* logical and pixel sizes, each one number
          MonitorSize,  \* of the monitor, in both
          Hosts,        \* error callbacks that the host program may install
          MaxRequests,  \* bound: calls of resize() and set_mode()
          MaxNative,    \* bound: changes by the user, and errors of the library
          MaxFaults     \* bound: listeners that throw
ASSUME HostAssumption == "engine" \notin Hosts

VARIABLES
    nativeWindow,     \* the native window: its sizes, "none" without one
    news,       \* sizes whose callbacks are still to come
    pane,       \* the Window: logical_size_, framebuffer_size_, window_mode_, windowed size, native_failure_
    frames,     \* the calls in progress, the innermost first
    toldOf,      \* history: what each channel was last told, whether a change was nested
    faults,     \* history: failures thrown, and those that reached their owner
    normal,     \* history: the size that the ordinary window had when it was left
    library,    \* displays, the error callback, the previous one, errors and those reported
    used        \* bound: requests and native changes

windowVars == <<nativeWindow, news, pane, frames, toldOf, faults, normal, library, used>>

Modes == {"normal", "borderless", "fullscreen"}
NoWindow == [logical |-> 0, pixels |-> 0]
SizeOf(n) == [logical |-> n, pixels |-> n]
Closed == [is |-> "closed", logical |-> 0, pixels |-> 0, mode |-> "normal", saved |-> 0, failed |-> FALSE]

WindowInit ==
  /\ nativeWindow = NoWindow /\ news = <<>> /\ pane = Closed /\ frames = <<>>
  /\ toldOf = [legacy |-> 0, typed |-> 0, nested |-> FALSE]
  /\ faults = [thrown |-> 0, told |-> 0] /\ normal = 0
  /\ library \in [displays : {0}, hook : Hosts, host : Hosts, previous : {"none"}, errors : {0}, reported : {0}]
  /\ library.hook = library.host
  /\ used = [requests |-> 0, native |-> 0]

--------------------
\* The library.  Errors are reported outside of callbacks only.
OpenDisplay ==
  /\ pane.is = "closed" /\ library.displays < 2
  /\ library' = IF library.displays = 0
                THEN [library EXCEPT !.displays = 1, !.hook = "engine", !.previous = library.hook, !.errors = 0, !.reported = 0]
                ELSE [library EXCEPT !.displays = @ + 1]
  /\ UNCHANGED <<nativeWindow, news, pane, frames, toldOf, faults, normal, used>>
\* glfwInit() fails: nothing stays installed.
OpenFails ==
  /\ library.displays = 0 /\ used.native < MaxNative /\ used' = [used EXCEPT !.native = @ + 1]
  /\ library' = [library EXCEPT !.errors = 1, !.reported = 1]
  /\ UNCHANGED <<nativeWindow, news, pane, frames, toldOf, faults, normal>>

\* Mutant: the callback found first is put back.
RestoredHookFirst == library.previous

\* Restored is what was found, unless the host replaced the engine's since.
RestoredHook == IF library.hook = "engine" THEN library.previous ELSE library.hook
CloseDisplay ==
  /\ library.displays > 0 /\ pane.is = "closed"
  /\ library' = IF library.displays = 1
                THEN [library EXCEPT !.displays = 0, !.hook = RestoredHook, !.previous = "none", !.reported = library.errors]
                ELSE [library EXCEPT !.displays = @ - 1, !.reported = library.errors]
  /\ UNCHANGED <<nativeWindow, news, pane, frames, toldOf, faults, normal, used>>
\* External: the host installs a callback; a call of the library fails.
HostReplaces == \E h \in Hosts :
    /\ library.displays > 0 /\ h # library.host /\ pane.is = "closed"
    /\ library' = [library EXCEPT !.hook = h, !.host = h]
    /\ UNCHANGED <<nativeWindow, news, pane, frames, toldOf, faults, normal, used>>
NativeError ==
  /\ library.displays > 0 /\ library.hook = "engine" /\ used.native < MaxNative
  /\ used' = [used EXCEPT !.native = @ + 1] /\ library' = [library EXCEPT !.errors = @ + 1]
  /\ UNCHANGED <<nativeWindow, news, pane, frames, toldOf, faults, normal>>
--------------------
\* Creation, in a library that is as it was opened (bound), and destruction,
\* which reports a failure that nobody took.
CreateWindow == \E s \in Sizes :
    /\ pane.is = "closed" /\ library.displays = 1 /\ used.requests = 0
    /\ library.hook = "engine" /\ library.previous = library.host /\ used.native = 0
    /\ nativeWindow' = SizeOf(s) /\ news' = <<>> /\ normal' = s
    /\ pane' = [is |-> "open", logical |-> s, pixels |-> s, mode |-> "normal", saved |-> s, failed |-> FALSE]
    /\ toldOf' = [legacy |-> s, typed |-> s, nested |-> FALSE]
    /\ UNCHANGED <<frames, faults, library, used>>
DestroyWindow ==
  /\ pane.is = "open" /\ frames = <<>> /\ used.requests > 0
  /\ nativeWindow' = NoWindow /\ news' = <<>> /\ pane' = Closed
  /\ faults' = [faults EXCEPT !.told = IF pane.failed THEN @ + 1 ELSE @]
  /\ UNCHANGED <<frames, toldOf, normal, library, used>>

\* A native window takes a size; its callbacks follow in order.
Becomes(size) == nativeWindow' = size /\ news' = IF size = nativeWindow THEN news ELSE Append(news, size)
UserResizes == \E n, p \in Sizes :
    /\ pane.is = "open" /\ frames = <<>> /\ used.native < MaxNative /\ nativeWindow # [logical |-> n, pixels |-> p]
    /\ pane.mode # "fullscreen" /\ Becomes([logical |-> n, pixels |-> p])
    /\ used' = [used EXCEPT !.native = @ + 1]
    /\ UNCHANGED <<pane, frames, toldOf, faults, normal, library>>
--------------------
\* An exception leaves every call up to the callback that keeps it; without
\* one it reaches the application.
Keepers == {i \in DOMAIN frames : frames[i].keeps}
ThrowFrom(fresh, now) ==
  IF Keepers = {}
  THEN /\ frames' = <<>> /\ pane' = [now EXCEPT !.failed = FALSE]
       /\ faults' = [thrown |-> faults.thrown + fresh, told |-> faults.told + 1]
  ELSE \E k \in Keepers :
         /\ \A i \in Keepers : k <= i
         /\ frames' = SubSeq(frames, k + 1, Len(frames)) /\ pane' = [now EXCEPT !.failed = TRUE]
         /\ faults' = [faults EXCEPT !.thrown = @ + fresh]
Throw(fresh) == ThrowFrom(fresh, pane)

\* update_framebuffer_size(): both channels are told of one observation.
Telling(size, keeps) == [op |-> "tell", channel |-> "legacy", size |-> size, keeps |-> keeps]
Native(op) == [op |-> op, channel |-> "none", size |-> 0, keeps |-> FALSE]
Inside == frames # <<>> /\ Head(frames).op \in {"resize", "mode"}
Listening == frames # <<>> /\ Head(frames).op = "tell"

\* on_window_size() and on_framebuffer_size(), in a poll or inside a call.
SizeCallback ==
  /\ pane.is = "open" /\ news # <<>> /\ (frames = <<>> \/ Inside)
  /\ LET size == Head(news)
         tells == ~pane.failed /\ pane.pixels # size.pixels
     IN /\ pane' = [pane EXCEPT !.logical = size.logical, !.pixels = size.pixels,
                                !.saved = IF pane.mode = "normal" THEN size.logical ELSE @]
        /\ frames' = IF tells THEN <<Telling(size.pixels, TRUE)>> \o frames ELSE frames
        /\ toldOf' = IF tells THEN [toldOf EXCEPT !.legacy = size.pixels] ELSE toldOf
  /\ news' = Tail(news)
  /\ UNCHANGED <<nativeWindow, faults, normal, library, used>>

\* resize() and set_mode(), by the application or by a listener.
MayRequest ==
  pane.is = "open" /\ used.requests < MaxRequests /\ (frames = <<>> \/ (Listening /\ Len(frames) < 4))
Requested == used' = [used EXCEPT !.requests = @ + 1]
Resize == \E s \in Sizes :
    /\ MayRequest /\ Requested
    /\ IF pane.failed THEN Throw(0) /\ UNCHANGED <<nativeWindow, news, toldOf>>
       ELSE /\ Becomes(SizeOf(s)) /\ frames' = <<Native("resize")>> \o frames
            /\ toldOf' = [toldOf EXCEPT !.nested = @ \/ Listening]
            /\ UNCHANGED <<pane, faults>>
    /\ UNCHANGED <<normal, library>>
SetMode == \E m \in Modes \ {pane.mode} :
    /\ MayRequest /\ Requested
    /\ IF pane.failed THEN Throw(0) /\ UNCHANGED <<nativeWindow, news, toldOf, normal>>
       ELSE LET saved == IF pane.mode = "normal" THEN nativeWindow.logical ELSE pane.saved
            IN /\ Becomes(SizeOf(IF m = "fullscreen" THEN MonitorSize ELSE saved))
               /\ pane' = [pane EXCEPT !.mode = m, !.saved = saved]
               /\ normal' = IF pane.mode = "normal" THEN nativeWindow.logical ELSE normal
               /\ frames' = <<Native("mode")>> \o frames
               /\ toldOf' = [toldOf EXCEPT !.nested = @ \/ Listening]
               /\ UNCHANGED faults
    /\ UNCHANGED library

\* Mutant: what failed inside the call is left to a later observation.
AfterNativeUnchecked == FALSE

\* A callback that ran inside the call may have failed.
AfterNative == pane.failed
NativeReturns ==
  /\ Inside
  /\ LET op == Head(frames).op
         now == [pane EXCEPT !.logical = nativeWindow.logical,
                             !.saved = IF op = "resize" /\ pane.mode = "normal" THEN nativeWindow.logical ELSE @]
         tells == pane.pixels # nativeWindow.pixels
     IN IF AfterNative THEN ThrowFrom(0, now) /\ UNCHANGED toldOf
        ELSE /\ pane' = [now EXCEPT !.pixels = nativeWindow.pixels]
             /\ frames' = IF tells THEN <<Telling(nativeWindow.pixels, FALSE)>> \o Tail(frames) ELSE Tail(frames)
             /\ toldOf' = IF tells THEN [toldOf EXCEPT !.legacy = nativeWindow.pixels] ELSE toldOf
             /\ UNCHANGED faults
  /\ UNCHANGED <<nativeWindow, news, normal, library, used>>

\* A listener returns, or throws.
ListenerReturns ==
  /\ Listening
  /\ IF Head(frames).channel = "legacy"
     THEN /\ frames' = <<[Head(frames) EXCEPT !.channel = "typed"]>> \o Tail(frames)
          /\ toldOf' = [toldOf EXCEPT !.typed = Head(frames).size]
     ELSE frames' = Tail(frames) /\ UNCHANGED toldOf
  /\ UNCHANGED <<nativeWindow, news, pane, faults, normal, library, used>>
ListenerThrows ==
  /\ Listening /\ faults.thrown < MaxFaults /\ Throw(1)
  /\ UNCHANGED <<nativeWindow, news, toldOf, normal, library, used>>

\* check_native_failure() outside of callbacks: the failure, once.
ObserveWindow ==
  /\ pane.is = "open" /\ frames = <<>> /\ (pane.failed \/ library.reported < library.errors)
  /\ library' = [library EXCEPT !.reported = library.errors]
  /\ IF pane.failed THEN Throw(0) ELSE UNCHANGED <<frames, pane, faults>>
  /\ UNCHANGED <<nativeWindow, news, toldOf, normal, used>>

WindowNext ==
  \/ OpenDisplay \/ OpenFails \/ CloseDisplay \/ HostReplaces \/ NativeError
  \/ CreateWindow \/ DestroyWindow \/ UserResizes \/ SizeCallback
  \/ Resize \/ SetMode \/ NativeReturns \/ ListenerReturns \/ ListenerThrows \/ ObserveWindow
--------------------
\* Once every callback came, the window knows its native sizes whatever
\* failed on the way; both channels were told of them unless something threw
\* or a listener changed the window again (then the first channel was); and
\* an ordinary window goes back to the size that it had when it was left.
Settled == pane.is = "open" /\ frames = <<>> /\ news = <<>>
SizesFollow ==
  /\ Settled => pane.logical = nativeWindow.logical /\ pane.pixels = nativeWindow.pixels
  /\ Settled /\ faults.thrown = 0 =>
         toldOf.legacy = pane.pixels /\ (~toldOf.nested => toldOf.typed = pane.pixels)
  /\ Settled => pane.saved = IF pane.mode = "normal" THEN nativeWindow.logical ELSE normal
\* Each failure of a listener reaches an owner once, an error of the library
\* is reported before it closes, and the host's callback is put back.
FailuresReachAnOwner ==
  /\ frames = <<>> => faults.thrown = faults.told + (IF pane.failed THEN 1 ELSE 0)
  /\ library.displays = 0 => library.hook = library.host /\ library.reported = library.errors
WindowIsTrue == SizesFollow /\ FailuresReachAnOwner
====================
