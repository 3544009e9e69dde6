---------------------------- MODULE LiveStreams -----------------------------
(* The live pages of a container (handler/docker_ws.go): its console (wsExec),
   its log (wsLogs) and the pull of an image (wsPullImage). Each is one
   websocket of one page and one stream of the Docker daemon, held together by
   two goroutines and one context: the handler and, beside it, the copier of a
   console's output or the watcher of a log or a pull.
   External: the page, which reads, types, leaves or falls silent without a
   word; the daemon, which answers, writes and ends its stream; the clock. *)
EXTENDS Integers, Sequences, FiniteSets

CONSTANTS Shells,      \* how many shells are tried (DefaultShells)
          MaxOut,      \* how much the daemon writes at most
          MaxIn        \* how many keys the page sends at most

VARIABLES
    kind,              \* "exec", "logs" or "pull"
    tty,               \* does the daemon write raw bytes (a console, a tty container)?
    page,              \* [link, keys, sent, got]: the page's end of the websocket
    daemon,            \* [at, out, wrote, keys]: the daemon's end of the stream
    handler,           \* [at, tried, have, end]: the goroutine of the handler,
                       \* the shells it tried, what it carries, how it ended
    other,             \* [at, have, late]: the goroutine beside it
    ctx,               \* "live" or "cancelled"
    conn,              \* the websocket on our side: "open" or "closed"
    stream,            \* our end of the stream: "none", "open" or "closed"
    deadline           \* of the stream: "none", "set" or "passed"

vars == <<kind, tty, page, daemon, handler, other, ctx, conn, stream, deadline>>

Kinds == {"exec", "logs", "pull"}
Ended == {"ended", "broken"}

(* What may be the matter when the next piece of a stream is asked for: an
   answer of the daemon ends with the context that asked for it, the raw
   connection of a console only when it is closed or its time is up. *)
Lost == \/ kind /= "exec" /\ ctx = "cancelled"
        \/ stream = "closed"
        \/ deadline = "passed"

Init == /\ kind \in Kinds
        /\ tty \in IF kind = "exec" THEN {TRUE} ELSE IF kind = "pull" THEN {FALSE} ELSE BOOLEAN
        /\ page = [link |-> "open", keys |-> <<>>, sent |-> 0, got |-> <<>>]
        /\ daemon = [at |-> "idle", out |-> <<>>, wrote |-> <<>>, keys |-> 0]
        /\ handler = [at |-> "open", tried |-> 0, have |-> <<>>, end |-> ""]
        /\ other = [at |-> "none", have |-> <<>>, late |-> FALSE]
        /\ ctx = "live"
        /\ conn = "open"
        /\ stream = "none"
        /\ deadline = "none"

-----------------------------------------------------------------------------
(* The page and the daemon. *)

PageTypes ==
    /\ page.link = "open" /\ conn = "open" /\ kind = "exec"
    /\ page.sent < MaxIn
    /\ page' = [page EXCEPT !.keys = Append(@, "key"), !.sent = @ + 1]
    /\ UNCHANGED <<kind, tty, daemon, handler, other, ctx, conn, stream, deadline>>

(* The page is closed, or its network is gone without a word. *)
PageLeaves(how) ==
    /\ page.link = "open"
    /\ page' = [page EXCEPT !.link = how]
    /\ UNCHANGED <<kind, tty, daemon, handler, other, ctx, conn, stream, deadline>>

(* Raw bytes do not say which stream they are of. A frame that carries nothing
   is read and passed over, which changes nothing here (docker_ws.go:98). *)
Writes == IF kind = "pull" THEN {"layer"} ELSE IF tty THEN {"out"} ELSE {"out", "err"}

DaemonWrites(w) ==
    /\ daemon.at = "running" /\ Len(daemon.wrote) < MaxOut
    /\ w \in Writes
    /\ daemon' = [daemon EXCEPT !.out = Append(@, w), !.wrote = Append(@, w)]
    /\ UNCHANGED <<kind, tty, page, handler, other, ctx, conn, stream, deadline>>

(* The shell exits, the container stops, the pull is over: a pull says so, or
   says why not. The daemon may also break off, in the middle of a frame. *)
DaemonEnds(how) ==
    /\ daemon.at = "running"
    /\ LET last == IF kind = "pull" /\ how = "ended" THEN <<"done">>
                   ELSE IF kind = "pull" /\ how = "failed" THEN <<"error">> ELSE <<>>
       IN  daemon' = [daemon EXCEPT !.at = IF how = "failed" THEN "ended" ELSE how,
                                    !.out = @ \o last, !.wrote = @ \o last]
    /\ how = "failed" => kind = "pull"
    /\ UNCHANGED <<kind, tty, page, handler, other, ctx, conn, stream, deadline>>

(* Thirty minutes without a word of the page (execIdleTimeout). *)
DeadlinePasses ==
    /\ deadline = "set"
    /\ deadline' = "passed"
    /\ UNCHANGED <<kind, tty, page, daemon, handler, other, ctx, conn, stream>>

-----------------------------------------------------------------------------
(* Writing to the page: writeText and writeJSONMsg give it ten seconds. A page
   that fell silent takes what the network buffers, then the write fails. *)
writeText(w, ok) ==
    IF ok
    THEN /\ page.link /= "closed" /\ conn = "open" /\ ctx = "live"
         /\ page' = IF page.link = "open" THEN [page EXCEPT !.got = @ \o w] ELSE page
    ELSE /\ page.link /= "open" \/ conn = "closed" \/ ctx = "cancelled"
         /\ page' = page

(* Reading from the page: a key, or the news that it, or we, are gone. *)
PageGone == page.link = "closed" \/ conn = "closed" \/ ctx = "cancelled"

(* Reading the next piece of the stream. Of raw bytes Read takes what is
   there, of frames one. Data comes before the end, and the end is an error
   unless it falls between two frames. *)
Piece(n) == SubSeq(daemon.out, 1, n)
Fits(n) == n \in 1..Len(daemon.out) /\ (~tty => n = 1)
TakePiece(n) ==
    /\ stream = "open"
    /\ kind /= "exec" => ctx = "live"
    /\ Fits(n)
    /\ daemon' = [daemon EXCEPT !.out = SubSeq(@, n + 1, Len(@))]

(* Wrong: the end is seen before the data in front of it. *)
StreamEndAtOnce ==
    IF Lost                      THEN "lost"
    ELSE IF daemon.at = "ended"  THEN "eof"
    ELSE IF daemon.at = "broken" THEN "cut" ELSE ""

StreamEnd ==
    IF Lost                      THEN "lost"
    ELSE IF daemon.out /= <<>>   THEN ""
    ELSE IF daemon.at = "ended"  THEN "eof"
    ELSE IF daemon.at = "broken" THEN "cut" ELSE ""

-----------------------------------------------------------------------------
(* The way to the stream. *)

Goto(at) == handler' = [handler EXCEPT !.at = at]

(* One request after the other, each may be refused: a shell is looked for,
   unless the page names one, the session made and attached; the container is
   inspected and its log asked for; the pull is asked for. A refusal is told. *)
Asked == CASE kind = "exec" -> <<"open", "detect", "create", "attach">>
           [] kind = "logs" -> <<"open", "inspect", "request">>
           [] OTHER         -> <<"open", "request">>

Ask(i) ==
    /\ handler.at = Asked[i] /\ i < Len(Asked)
    /\ \E to \in IF handler.at = "open" /\ kind = "exec" THEN {"detect", "create"} ELSE {Asked[i + 1]} :
         Goto(to)
    /\ UNCHANGED <<kind, tty, page, daemon, other, ctx, conn, stream, deadline>>

(* DetectShell: the next candidate, when the last is not there, does not run,
   or could not be asked for. *)
NextShell ==
    /\ handler.at = "detect" /\ handler.tried < Shells - 1
    /\ handler' = [handler EXCEPT !.tried = @ + 1]
    /\ UNCHANGED <<kind, tty, page, daemon, other, ctx, conn, stream, deadline>>

Refused(ok) ==
    /\ handler.at \in {Asked[i] : i \in 2..Len(Asked)}
    /\ handler.at = "detect" => handler.tried = Shells - 1
    /\ writeText(<<"refused">>, ok)
    /\ Goto("return")
    /\ UNCHANGED <<kind, tty, daemon, other, ctx, conn, stream, deadline>>

(* The stream is there: the other goroutine is started. *)
Attach ==
    /\ handler.at = Asked[Len(Asked)]
    /\ daemon' = [daemon EXCEPT !.at = "running"]
    /\ stream' = "open"
    /\ other' = [other EXCEPT !.at = "read"]
    /\ Goto("top")
    /\ UNCHANGED <<kind, tty, page, ctx, conn, deadline>>

-----------------------------------------------------------------------------
(* The console: the handler carries keys to the shell, the other goroutine
   carries what the shell says to the page. *)

SetDeadline ==
    /\ kind = "exec" /\ handler.at = "top"
    /\ IF stream = "open" THEN deadline' = "set" /\ Goto("read")
                          ELSE deadline' = deadline /\ Goto("return")
    /\ UNCHANGED <<kind, tty, page, daemon, other, ctx, conn, stream>>

(* A key, or the size of the window, which is passed on and forgotten. *)
ReadKey ==
    /\ kind = "exec" /\ handler.at = "read"
    /\ conn = "open" /\ ctx = "live"
    /\ page.keys /= <<>>
    /\ page' = [page EXCEPT !.keys = Tail(@)]
    /\ \E to \in {"write", "top"} : Goto(to)
    /\ UNCHANGED <<kind, tty, daemon, other, ctx, conn, stream, deadline>>

WriteKey ==
    /\ kind = "exec" /\ handler.at = "write"
    /\ \/ /\ stream = "open" /\ daemon.at = "running" /\ deadline /= "passed"
          /\ daemon' = [daemon EXCEPT !.keys = @ + 1]
          /\ Goto("top")
       \/ /\ stream = "closed" \/ daemon.at \in Ended \/ deadline = "passed"
          /\ daemon' = daemon
          /\ handler' = [handler EXCEPT !.at = "return", !.end = "write"]
    /\ UNCHANGED <<kind, tty, page, other, ctx, conn, stream, deadline>>

ReadEnds ==
    /\ kind = "exec" /\ handler.at = "read"
    /\ PageGone
    /\ Goto("return")
    /\ UNCHANGED <<kind, tty, page, daemon, other, ctx, conn, stream, deadline>>

OutputRead ==
    /\ kind = "exec" /\ other.at = "read"
    /\ \E n \in 1..MaxOut : TakePiece(n) /\ other' = [other EXCEPT !.at = "write", !.have = Piece(n)]
    /\ UNCHANGED <<kind, tty, page, handler, ctx, conn, stream, deadline>>

OutputEnds ==
    /\ kind = "exec" /\ other.at = "read"
    /\ StreamEnd /= ""
    /\ other' = [other EXCEPT !.at = "cancel", !.late = (deadline = "passed")]
    /\ UNCHANGED <<kind, tty, page, daemon, handler, ctx, conn, stream, deadline>>

OutputWrite(ok) ==
    /\ kind = "exec" /\ other.at = "write"
    /\ writeText(other.have, ok)
    /\ other' = [other EXCEPT !.at = IF ok THEN "read" ELSE "cancel", !.have = <<>>]
    /\ UNCHANGED <<kind, tty, daemon, handler, ctx, conn, stream, deadline>>

(* Wrong: the output's end does not end the session. *)
OutputEndsAlone ==
    /\ kind = "exec" /\ other.at = "cancel"
    /\ other' = [other EXCEPT !.at = "end"]
    /\ UNCHANGED <<kind, tty, page, daemon, handler, ctx, conn, stream, deadline>>

(* defer cancel(): the other goroutine ends the session of both. *)
OutputCancel ==
    /\ kind = "exec" /\ other.at = "cancel"
    /\ ctx' = "cancelled"
    /\ other' = [other EXCEPT !.at = "end"]
    /\ UNCHANGED <<kind, tty, page, daemon, handler, conn, stream, deadline>>

-----------------------------------------------------------------------------
(* A log and a pull: the other goroutine waits for the page to leave, the
   handler carries the stream. *)

Watch ==
    /\ kind /= "exec" /\ other.at = "read"
    /\ PageGone
    /\ ctx' = "cancelled"
    /\ other' = [other EXCEPT !.at = "end"]
    /\ UNCHANGED <<kind, tty, page, daemon, handler, conn, stream, deadline>>

Cancelled ==
    /\ kind /= "exec" /\ handler.at = "top"
    /\ ctx = "cancelled"
    /\ Goto("return")
    /\ UNCHANGED <<kind, tty, page, daemon, other, ctx, conn, stream, deadline>>

Says(w, words) == \E i \in DOMAIN words : words[i] = w

NextPiece ==
    /\ kind /= "exec" /\ handler.at = "top"
    /\ \E n \in 1..MaxOut + 1 :
         /\ TakePiece(n)
         /\ handler' = [handler EXCEPT !.at = "send", !.have = Piece(n),
                                       !.end = IF Says("error", Piece(n)) THEN "error" ELSE @]
    /\ UNCHANGED <<kind, tty, page, other, ctx, conn, stream, deadline>>

(* A log sends the piece; a pull the progress it makes, and an error only at
   the end (DecodePullStream). *)
Message(w) == [i \in DOMAIN w |-> IF w[i] = "error" THEN "layer" ELSE w[i]]

Send(ok) ==
    /\ kind /= "exec" /\ handler.at = "send"
    /\ writeText(Message(handler.have), ok)
    /\ handler' = [handler EXCEPT !.at = IF ok THEN "top" ELSE IF kind = "pull" THEN "tell" ELSE "return",
                                  !.have = <<>>]
    /\ UNCHANGED <<kind, tty, daemon, other, ctx, conn, stream, deadline>>

(* The stream is over: what went wrong is told, unless it is the page that
   left. A log's clean end is told by closing, a pull's by its last message. *)
StreamEnds ==
    /\ kind /= "exec" /\ handler.at = "top"
    /\ StreamEnd /= ""
    /\ Goto(IF \/ StreamEnd = "cut"
               \/ StreamEnd = "eof" /\ handler.end = "error"
            THEN "tell" ELSE "return")
    /\ UNCHANGED <<kind, tty, page, daemon, other, ctx, conn, stream, deadline>>

Tell(ok) ==
    /\ handler.at = "tell"
    /\ writeText(<<"error">>, ok)
    /\ Goto("return")
    /\ UNCHANGED <<kind, tty, daemon, other, ctx, conn, stream, deadline>>

(* The handler's defers: the stream, the context, the websocket. *)
Return ==
    /\ handler.at = "return"
    /\ stream' = IF stream = "open" THEN "closed" ELSE stream
    /\ ctx' = "cancelled"
    /\ conn' = "closed"
    /\ Goto("end")
    /\ UNCHANGED <<kind, tty, page, daemon, other, deadline>>

-----------------------------------------------------------------------------
World == \/ PageTypes
         \/ \E how \in {"closed", "silent"} : PageLeaves(how)
         \/ \E w \in Writes : DaemonWrites(w)
         \/ \E how \in {"ended", "failed", "broken"} : DaemonEnds(how)

Handler == \/ \E i \in 1..Len(Asked) : Ask(i)
           \/ \E ok \in BOOLEAN : Refused(ok) \/ Send(ok) \/ Tell(ok)
           \/ NextShell \/ Attach \/ SetDeadline \/ ReadKey \/ WriteKey \/ ReadEnds
           \/ Cancelled \/ NextPiece \/ StreamEnds \/ Return

Other == \/ OutputRead \/ OutputEnds \/ OutputCancel \/ Watch
         \/ \E ok \in BOOLEAN : OutputWrite(ok)

Next == World \/ Handler \/ Other \/ DeadlinePasses

Spec == Init /\ [][Next]_vars

(* Each goroutine runs, the daemon answers a request, and thirty minutes pass
   once they are counted. Nothing is assumed of the page or of what the
   daemon writes. *)
FairSpec == Spec /\ WF_vars(Handler) /\ WF_vars(Other) /\ WF_vars(DeadlinePasses)

-----------------------------------------------------------------------------
Over == handler.at = "end" /\ other.at \in {"none", "end"}

(* What a page should have seen of a stream that came to its end. *)
Due == LET wrong == kind /= "exec" /\ (daemon.at = "broken" \/ Says("error", daemon.wrote))
       IN  Message(daemon.wrote) \o IF wrong THEN <<"error">> ELSE <<>>

(* A page that stays sees all of it, in order, and the end: nothing the daemon
   wrote before it ended is swallowed by the two goroutines stopping each
   other, and a pull that stops says done or says why (docker_ws.go:91-110,
   168-183, 255-274). Not so for a key typed into a shell that has ended: its
   write fails and the handler takes the last output with it. *)
StayersSeeAll ==
    (/\ Over /\ stream = "closed"
     /\ page.link = "open" /\ ~other.late /\ handler.end /= "write")
    => page.got = Due

(* Nothing is left behind: when the page closes or the daemon's end comes, and
   for a console also when the page is gone without a word, both goroutines
   end and the stream is closed. (A quiet log keeps a silent page's stream.) *)
SessionsEnd ==
    (\/ page.link = "closed"
     \/ daemon.at \in Ended
     \/ page.link = "silent" /\ kind = "exec")
    ~> (Over /\ stream /= "open")

=============================================================================
