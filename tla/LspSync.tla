------------------------------ MODULE LspSync ------------------------------
(* The language server client: one server, its connection and one document   *)
(* (src/mod/lsp/client.c, sync.c and the calls of jsonrpc.c).  The editor    *)
(* tells the server of every edit as a range in the text before the edit,    *)
(* batches them, asks questions and drops the answers that came too late.    *)
(* The server is another process: it may crash at any moment, answer late or *)
(* not at all, and its pipe outlives it.  What it does is external.          *)
EXTENDS Integers, Sequences, FiniteSets

CONSTANTS
  Texts,       \* what the file may hold when it is loaded
  Inserts,     \* what the user may type
  PendingMax,  \* YEW_LSP_PENDING_MAX
  Tries,       \* crashes in five minutes after which the client gives up
  MaxLen,      \* bound: longest text
  MaxEdits,    \* bound: edits
  MaxAsks,     \* bound: questions
  MaxUpsets,   \* bound: crashes, :lsp.restart, :lsp.stop, loads of the buffer
  MaxStops     \* bound: how many of these are :lsp.stop

(* A character is a letter, a newline, or one outside the basic plane: its   *)
(* columns in the two encodings of a position.                               *)
Wide == "w"
Newline == "n"
Chars == {"a", Wide, Newline}
Encodings == {"utf-8", "utf-16"}
Columns(enc, c) == IF c # Wide THEN 1 ELSE IF enc = "utf-8" THEN 4 ELSE 2

ASSUME LspAssumption ==
  /\ Texts \subseteq Seq(Chars) /\ Inserts \subseteq Chars
  /\ {PendingMax, Tries} \subseteq Nat \ {0}
  /\ {MaxLen, MaxEdits, MaxAsks, MaxUpsets, MaxStops} \subseteq Nat

VARIABLES
  buf,     \* the buffer: its text, generation, whether it is loaded
  doc,     \* the LspDoc: what is open at the server and not yet told it
  srv,     \* the LspServer: state, what it agreed to, crashes counted
  owners,  \* the jobs whose end destroys the connection
  wire,    \* the connection: its two directions and the calls under way
  peer,    \* external: the server's process, and its copy of the document
  phase,   \* where the loop is: at poll, at its events, or at the keys
  shown,   \* history: the last answer that was let through
  used     \* what the bounds have let happen, and whether :lsp.restart was followed up

vars == <<buf, doc, srv, owners, wire, peer, phase, shown, used>>

Nothing == <<"none">>
NoDoc  == [on |-> FALSE, open |-> FALSE, full |-> FALSE, pending |-> <<>>]
(* shut: the job's standard input is open, closed, or closed with bytes left *)
NoWire == [live |-> FALSE, out |-> <<>>, in |-> {}, calls |-> {}, next |-> 1,
           shut |-> "no"]
NoPeer == [alive |-> FALSE, told |-> FALSE, enc |-> "utf-16", copy |-> Nothing]

Init ==
  /\ \E t \in Texts : buf = [text |-> t, gen |-> 0, loaded |-> TRUE, life |-> 0]
  /\ doc = NoDoc
  /\ srv = [state |-> "none", gave_up |-> FALSE, restarts |-> 0, exit |-> FALSE,
            timed |-> FALSE, due |-> TRUE,
            kind |-> 0, enc |-> "utf-16", job |-> 0, run |-> "none"]
  /\ owners = {} /\ wire = NoWire /\ peer = NoPeer
  /\ phase = "events" /\ shown = "none"
  /\ used = [edits |-> 0, asks |-> 0, upsets |-> 0, stops |-> 0, tried |-> FALSE]

-----------------------------------------------------------------------------
(* Positions.                                                                *)

(* lsp_pos_of_off: line and column of what follows the first k characters *)
PosOf(enc, t, k) ==
  LET ends == {i \in 1..k : t[i] = Newline}
      bol  == IF ends = {} THEN 0 ELSE CHOOSE i \in ends : \A j \in ends : j <= i
  IN <<Cardinality(ends),
       k - bol + (Columns(enc, Wide) - 1)
                   * Cardinality({i \in bol+1..k : t[i] = Wide})>>

(* external: where the server finds a position in its copy; one that is not  *)
(* there is taken for the end                                                *)
OffOf(enc, t, p) ==
  LET at == {k \in 0..Len(t) : PosOf(enc, t, k) = p}
  IN IF at = {} THEN Len(t) ELSE CHOOSE k \in at : TRUE

Replaced(t, lo, hi, ins) == SubSeq(t, 1, lo) \o ins \o SubSeq(t, hi + 1, Len(t))

(* external: one element of contentChanges, and a text after each of several *)
Applied(enc, t, c) ==
  Replaced(t, OffOf(enc, t, c.from), OffOf(enc, t, c.to), c.ins)
Changing(enc, t, cs) ==
  LET text[i \in 0..Len(cs)] ==
        IF i = 0 THEN t ELSE Applied(enc, text[i - 1], cs[i])
  IN text
Changed(enc, t, cs) == Changing(enc, t, cs)[Len(cs)]

-----------------------------------------------------------------------------
(* The document (sync.c).                                                    *)

Ready == srv.state = "ready"

(* Plausible bugs: the range computed once the text is changed ...           *)
LateNoted(d, t, lo, hi, ins) ==
  IF ~d.open \/ d.full THEN d
  ELSE IF srv.kind = 1 \/ Len(d.pending) >= PendingMax
       THEN [d EXCEPT !.full = TRUE, !.pending = <<>>]
       ELSE LET after == Replaced(t, lo, hi, ins)
            IN [d EXCEPT !.pending =
                  Append(@, [from |-> PosOf(srv.enc, after, lo),
                             to |-> PosOf(srv.enc, after, IF hi > Len(after)
                                                          THEN Len(after) ELSE hi),
                             ins |-> ins])]

(* yew_lsp_doc_note_edit and _post: the characters lo+1..hi are replaced *)
Noted(d, t, lo, hi, ins) ==
  IF ~d.open \/ d.full THEN d
  ELSE IF srv.kind = 1 \/ Len(d.pending) >= PendingMax
       THEN [d EXCEPT !.full = TRUE, !.pending = <<>>]
       ELSE [d EXCEPT !.pending =
               Append(@, [from |-> PosOf(srv.enc, t, lo),
                          to |-> PosOf(srv.enc, t, hi), ins |-> ins])]

(* doc_clear_changes *)
Cleared(d) == [d EXCEPT !.pending = <<>>, !.full = FALSE]

(* yew_lsp_doc_open *)
Opened(d) == [Cleared(d) EXCEPT !.open = TRUE]
OpenMsg == [op |-> "open", text |-> buf.text]

(* ... a whole text that is owed and never sent ...                          *)
OwesRanges(d) == d.open /\ d.pending # <<>>
(* yew_lsp_doc_flush: whether it sends, what, and the document after it *)
Owes(d) == d.open /\ (d.full \/ d.pending # <<>>)
Flushed(d) == IF Owes(d) THEN Cleared(d) ELSE d
FlushMsgs(d) ==
  IF ~Owes(d) THEN <<>>
  ELSE IF srv.kind = 1 \/ d.full
       THEN <<[op |-> "text", text |-> buf.text]>>
       ELSE <<[op |-> "change", changes |-> d.pending]>>

(* external: the server's copy after a message *)
Heard(enc, copy, m) ==
  CASE m.op \in {"open", "text"} -> m.text
    [] m.op = "change" -> Changed(enc, copy, m.changes)
    [] m.op = "close" -> Nothing
    [] OTHER -> copy

-----------------------------------------------------------------------------
(* The editor's side.                                                        *)

(* A turn of the loop: poll, the events of the jobs, the pump, the keys. *)
AtKeys == phase = "keys" /\ phase' = "keys"
AtJobs == phase \in {"poll", "events"} /\ phase' = "events"

(* A change of the text: yew_lsp_note_edit, the mutation, its _post. *)
Edit ==
  /\ AtKeys /\ buf.loaded /\ used.edits < MaxEdits
  /\ \E lo \in 0..Len(buf.text) : \E hi \in lo..Len(buf.text) :
     \E ins \in {<<>>} \cup {<<c>> : c \in Inserts} :
       /\ (lo = hi) # (ins = <<>>)
       /\ Len(buf.text) + Len(ins) <= MaxLen
       /\ buf' = [buf EXCEPT !.gen = @ + 1,
                             !.text = Replaced(@, lo, hi, ins)]
       /\ doc' = IF Ready THEN Noted(doc, buf.text, lo, hi, ins) ELSE doc
  /\ used' = [used EXCEPT !.edits = @ + 1]
  /\ UNCHANGED <<srv, owners, wire, peer, shown>>

(* yew_lsp_sync_save: the flush comes before didSave, which carries no change *)
Save ==
  /\ AtKeys /\ buf.loaded /\ Ready /\ Owes(doc)
  /\ doc' = Flushed(doc)
  /\ wire' = [wire EXCEPT !.out = @ \o FlushMsgs(doc)]
  /\ UNCHANGED <<buf, srv, owners, peer, shown, used>>

(* yew_rpctx_send *)
Sent(w, m) == IF w.shut = "no" THEN [w EXCEPT !.out = Append(@, m)]
              ELSE [w EXCEPT !.shut = "stuck"]

(* yew_rpc_call *)
Called(w, what, gen) ==
  [Sent(w, [op |-> what, id |-> w.next]) EXCEPT
            !.calls = @ \cup {[id |-> w.next, what |-> what, gen |-> gen,
                               life |-> buf.life]},
            !.next = @ + 1]

(* A question about the document, as panel_request_start asks it: the        *)
(* generation is taken, the document flushed, and then the call is made.     *)
Ask ==
  /\ AtKeys /\ buf.loaded /\ doc.on /\ Ready /\ used.asks < MaxAsks
  /\ doc' = Flushed(doc)
  /\ wire' = Called([wire EXCEPT !.out = @ \o FlushMsgs(doc)], "ask", buf.gen)
  /\ used' = [used EXCEPT !.asks = @ + 1]
  /\ UNCHANGED <<buf, srv, owners, peer, shown>>

(* yew_buf_defer, with yew_lsp_client_close_buffer *)
Defer ==
  /\ AtKeys /\ buf.loaded /\ used.upsets < MaxUpsets
  /\ buf' = [buf EXCEPT !.loaded = FALSE, !.text = <<>>, !.gen = 0]
  /\ doc' = NoDoc
  /\ wire' = IF Ready /\ doc.open
             THEN [wire EXCEPT !.out = Append(@, [op |-> "close"])] ELSE wire
  /\ used' = [used EXCEPT !.upsets = @ + 1]
  /\ UNCHANGED <<srv, owners, peer, shown>>

(* The tab is looked at again: the text is what the file now holds. *)
Load ==
  /\ AtKeys /\ ~buf.loaded
  /\ \E t \in Texts :
       buf' = [text |-> t, gen |-> 0, loaded |-> TRUE, life |-> buf.life + 1]
  /\ UNCHANGED <<doc, srv, owners, wire, peer, shown, used>>

(* A key wakes the loop; what it does comes after the pump. *)
Key == /\ phase = "poll" /\ phase' = "events"
       /\ UNCHANGED <<buf, doc, srv, owners, wire, peer, shown, used>>

(* The turn is over. *)
Sleep == /\ phase = "keys" /\ phase' = "poll"
         /\ UNCHANGED <<buf, doc, srv, owners, wire, peer, shown, used>>

(* ... a session that ends and leaves the document open ...                  *)
LastingForgotten(d) == Cleared(d)
(* reset_server_session: the new process knows nothing *)
Forgotten(d) == [Cleared(d) EXCEPT !.open = FALSE]
Reset(s) == [s EXCEPT !.kind = 0, !.enc = "utf-16", !.exit = FALSE]

(* yew_job_signal(SIGTERM): SIGKILL follows after the grace *)
Told(p) == IF srv.run = "running" THEN [p EXCEPT !.told = TRUE] ELSE p

(* yew_lsp_client_restart *)
Restart ==
  /\ AtKeys /\ doc.on /\ used.upsets < MaxUpsets
  /\ wire' = IF Ready /\ doc.open
             THEN [wire EXCEPT !.out = Append(@, [op |-> "close"])] ELSE wire
  /\ doc' = Forgotten(doc)
  /\ srv' = [Reset(srv) EXCEPT !.restarts = 0, !.gave_up = FALSE,
                               !.state = "dead", !.timed = TRUE, !.due = TRUE]
  /\ peer' = Told(peer)
  /\ used' = [used EXCEPT !.upsets = @ + 1, !.tried = FALSE]
  /\ UNCHANGED <<buf, owners, shown>>

(* :lsp.stop, yew_lsp_client_stop *)
Stop ==
  /\ AtKeys /\ doc.on /\ used.upsets < MaxUpsets
  /\ used.stops < MaxStops
  /\ srv.state \in {"init", "ready", "stopping"}
  /\ srv' = [srv EXCEPT !.state = "stopping"]
  /\ IF wire.live THEN wire' = Called(wire, "shutdown", 0) /\ peer' = peer
                  ELSE wire' = wire /\ peer' = Told(peer)
  /\ used' = [used EXCEPT !.upsets = @ + 1, !.stops = @ + 1]
  /\ UNCHANGED <<buf, doc, owners, shown>>

-----------------------------------------------------------------------------
(* What the loop finds: answers, the end of the process, deadlines.          *)

(* initialize_done, with yew_lsp_server_initialized: a.kind 0 stands for an  *)
(* error and for a server that does not synchronize documents                *)
InitializeDone(w, kind, enc) ==
  IF kind = 0 \/ srv.state # "init"
  THEN /\ srv' = [srv EXCEPT !.state = "dead", !.gave_up = TRUE]
       /\ peer' = Told(peer) /\ wire' = w /\ doc' = doc
  ELSE /\ srv' = [srv EXCEPT !.state = "ready", !.kind = kind, !.enc = enc]
       /\ IF doc.on /\ ~doc.open /\ buf.loaded
          THEN /\ doc' = Opened(doc)
               /\ wire' = [w EXCEPT !.out = Append(@, OpenMsg)]
          ELSE doc' = doc /\ wire' = w
       /\ peer' = peer

(* shutdown_done, also of a call that timed out *)
ShutdownDone(w) ==
  /\ srv' = [srv EXCEPT !.exit = TRUE, !.timed = FALSE, !.due = TRUE]
  /\ wire' = Sent(w, [op |-> "exit"])
  /\ UNCHANGED <<doc, peer>>

(* ... an answer let through whatever its text ...                           *)
Whatever(c) == buf.loaded

(* yew_lsp_dispatch_response: an answer about a text that has moved on is    *)
(* dropped *)
Current(c) == buf.loaded /\ c.gen = buf.gen
Freshness(c, a) == IF c.life # buf.life THEN "relic"
                   ELSE IF a.seen = buf.text THEN "fresh" ELSE "stale"

(* job_drain, framed_feed, yew_lsp_server_dispatch_value *)
Deliver ==
  /\ AtJobs /\ wire.live
  /\ \E a \in wire.in :
       LET rest == [wire EXCEPT !.in = @ \ {a}]
           mine == {c \in wire.calls : c.id = a.id}
           w    == [rest EXCEPT !.calls = @ \ mine]
       IN IF mine # {} /\ a.what = "init"
          THEN InitializeDone(w, a.kind, a.enc) /\ shown' = shown
          ELSE IF mine # {} /\ a.what = "shutdown"
          THEN ShutdownDone(w) /\ shown' = shown
          ELSE /\ wire' = w /\ UNCHANGED <<doc, srv, peer>>
               /\ shown' = IF \E c \in mine : Current(c)
                           THEN Freshness(CHOOSE c \in mine : TRUE, a)
                           ELSE shown
  /\ UNCHANGED <<buf, owners, used>>

(* ... and deadlines that are looked at until the server is ready ...         *)
LazyExpire ==
  /\ AtJobs /\ wire.live /\ srv.run = "running" /\ srv.state = "init"
  /\ \E c \in wire.calls :
       LET w == [wire EXCEPT !.calls = @ \ {c}]
       IN IF c.what = "init" THEN InitializeDone(w, 0, "utf-16")
          ELSE IF c.what = "shutdown" THEN ShutdownDone(w)
          ELSE wire' = w /\ UNCHANGED <<doc, srv, peer>>
  /\ UNCHANGED <<buf, owners, shown, used>>

(* yew_rpc_sweep from yew_job_tick: the deadline of a call has passed *)
Expire ==
  /\ AtJobs /\ wire.live /\ srv.run = "running"
  /\ \E c \in wire.calls :
       LET w == [wire EXCEPT !.calls = @ \ {c}]
       IN IF c.what = "init" THEN InitializeDone(w, 0, "utf-16")
          ELSE IF c.what = "shutdown" THEN ShutdownDone(w)
          ELSE wire' = w /\ UNCHANGED <<doc, srv, peer>>
  /\ UNCHANGED <<buf, owners, shown, used>>

(* yew_job_reap *)
Reap ==
  /\ AtJobs /\ srv.run = "running" /\ ~peer.alive
  /\ srv' = [srv EXCEPT !.run = "exited"]
  /\ UNCHANGED <<buf, doc, owners, wire, peer, shown, used>>

(* yew_job_settle: the pipes are read to their end, and the transport goes   *)
(* with the job: framed_destroy, yew_rpc_conn_free *)
Over(j) == IF j = srv.job THEN srv.run # "running" /\ wire.in = {} ELSE TRUE
Settle ==
  /\ AtJobs /\ \E j \in owners : Over(j) /\ owners' = owners \ {j}
  /\ wire' = NoWire
  /\ UNCHANGED <<buf, doc, srv, peer, shown, used>>

(* next_try_ms has passed: nothing wakes the loop for it *)
Delay ==
  /\ ~srv.due
  /\ srv' = [srv EXCEPT !.due = TRUE]
  /\ UNCHANGED <<buf, doc, owners, wire, peer, phase, shown, used>>

-----------------------------------------------------------------------------
(* yew_lsp_pump.                                                             *)

(* spawn_server; how: the program starts, or its exec fails *)
Spawn(s, how) ==
  /\ srv' = [s EXCEPT !.state = "init", !.job = @ + 1, !.run = how]
  /\ owners' = owners \cup {s.job + 1}
  /\ wire' = Called([NoWire EXCEPT !.live = TRUE], "init", 0)
  /\ peer' = [NoPeer EXCEPT !.alive = (how = "running")]
  /\ used' = [used EXCEPT !.tried = TRUE]

(* ... and the job table being full, which turns the server off *)
NoRoom(s) ==
  /\ srv' = [s EXCEPT !.state = "dead", !.gave_up = TRUE, !.run = "none"]
  /\ used' = [used EXCEPT !.tried = TRUE]
  /\ UNCHANGED <<owners, peer>> /\ wire' = NoWire

Spawning(s) == (\E how \in {"running", "execfail"} : Spawn(s, how)) \/ NoRoom(s)

(* yew_lsp_client_start: a buffer that has no document gets one *)
Attached(d) == [d EXCEPT !.on = TRUE]

(* yew_lsp_server_crashed; fresh: the last crash was five minutes ago *)
Crashed(s, fresh) ==
  LET n == IF fresh THEN 1 ELSE s.restarts + 1
  IN [Reset(s) EXCEPT !.restarts = n, !.state = "dead",
                      !.gave_up = (@ \/ n >= Tries),
                      !.timed = TRUE, !.due = FALSE]

(* ... a retry that does not wait for the pipes of the old job               *)
Impatient == srv.run # "running"

Drained == srv.job \notin owners
(* yew_lsp_client_pump, for a server in state s after the crash was noted *)
Retry(s) ==
  IF s.state = "dead" /\ ~s.gave_up /\ s.due /\ Drained THEN Spawning(s)
  ELSE srv' = s /\ UNCHANGED <<owners, wire, peer, used>>

PumpFirst ==
  /\ srv.state = "none" /\ buf.loaded
  /\ doc' = Attached(doc)
  /\ Spawning(srv)

PumpMissing ==
  /\ srv.run = "execfail"
  /\ srv' = [srv EXCEPT !.state = "dead", !.gave_up = TRUE]
  /\ doc' = IF buf.loaded THEN Attached(doc) ELSE doc
  /\ UNCHANGED <<owners, wire, peer, used>>

PumpRunning ==
  /\ srv.run = "running" /\ srv.state # "stopping"
  /\ LET starts == buf.loaded /\ Ready /\ ~doc.on
         d == IF buf.loaded THEN Attached(doc) ELSE doc
     IN /\ doc' = IF starts THEN Opened(d)
                  ELSE IF Ready /\ buf.loaded THEN Flushed(d) ELSE d
        /\ wire' = [wire EXCEPT !.out =
                      @ \o (IF starts THEN <<OpenMsg>>
                            ELSE IF Ready /\ buf.loaded THEN FlushMsgs(d)
                            ELSE <<>>)]
  /\ UNCHANGED <<srv, owners, peer, used>>

(* a server that was told to exit: its input is closed, then it is told by a *)
(* signal                                                                     *)
PumpStopping ==
  /\ srv.run = "running" /\ srv.state = "stopping"
  /\ doc' = IF buf.loaded THEN Attached(doc) ELSE doc
  /\ IF srv.exit /\ ~srv.timed /\ wire.shut # "stuck"
     THEN /\ wire' = [wire EXCEPT !.shut = "yes"] /\ peer' = peer
          /\ srv' = [srv EXCEPT !.timed = TRUE, !.due = FALSE]
     ELSE IF srv.exit /\ srv.timed /\ srv.due
     THEN /\ peer' = Told(peer) /\ wire' = wire
          /\ srv' = [srv EXCEPT !.timed = FALSE, !.exit = FALSE]
     ELSE UNCHANGED <<wire, peer, srv>>
  /\ UNCHANGED <<owners, used>>

PumpExited ==
  /\ srv.run = "exited" \/ (srv.run = "none" /\ srv.state = "dead")
  /\ LET d == IF buf.loaded THEN Attached(doc) ELSE doc
     IN IF srv.state \notin {"dead", "stopping"}
        THEN doc' = Forgotten(d) /\ \E fresh \in BOOLEAN :
               /\ fresh \/ srv.restarts > 0
               /\ Retry(Crashed(srv, fresh))
        ELSE doc' = d /\ Retry(srv)

Pump ==
  /\ phase = "events" /\ phase' = "keys"
  /\ PumpFirst \/ PumpMissing \/ PumpRunning \/ PumpStopping \/ PumpExited
  /\ UNCHANGED <<buf, shown>>

-----------------------------------------------------------------------------
(* external: the server.  The loop sees what it does at the next poll, so it *)
(* takes its steps there.                                                    *)

Agreements == {<<0, "utf-16">>, <<1, "utf-16">>} \cup ({2} \X Encodings)

Serve ==
  /\ phase = "poll" /\ peer.alive /\ wire.out # <<>>
  /\ LET m == Head(wire.out)
         w == [wire EXCEPT !.out = Tail(@)]
         Says(a) == wire' = [w EXCEPT !.in = @ \cup {a}]
         heard == [peer EXCEPT !.copy = Heard(peer.enc, @, m)]
     IN \/ /\ m.op = "init"
           /\ \E g \in Agreements :
                /\ Says([id |-> m.id, what |-> "init", kind |-> g[1], enc |-> g[2]])
                /\ peer' = [peer EXCEPT !.enc = g[2]]
        \/ /\ m.op = "ask" /\ peer' = peer
           /\ Says([id |-> m.id, what |-> "ask", seen |-> peer.copy])
        \/ /\ m.op = "shutdown" /\ peer' = peer
           /\ Says([id |-> m.id, what |-> "shutdown"])
        \/ /\ m.op = "exit" /\ peer' = [peer EXCEPT !.alive = FALSE]
           /\ wire' = [wire EXCEPT !.out = <<>>]
        \/ wire' = w /\ peer' = heard
  /\ UNCHANGED <<buf, doc, srv, owners, phase, shown, used>>

Die ==
  /\ phase = "poll" /\ peer.alive
  /\ \/ peer.told /\ used' = used
     \/ /\ ~peer.told /\ used.upsets < MaxUpsets
        /\ used' = [used EXCEPT !.upsets = @ + 1]
  /\ peer' = [peer EXCEPT !.alive = FALSE]
  /\ wire' = [wire EXCEPT !.out = <<>>]
  /\ UNCHANGED <<buf, doc, srv, owners, phase, shown>>

Next == \/ Edit \/ Save \/ Ask \/ Defer \/ Load \/ Restart \/ Stop \/ Key \/ Sleep
        \/ Deliver \/ Expire \/ Reap \/ Settle \/ Delay \/ Pump
        \/ Serve \/ Die

(* The loop runs a turn when a pipe has something, a child has ended, a call *)
(* is overdue or a key comes, and each turn looks at everything.  The user   *)
(* keeps pressing keys: nothing else wakes the loop for a retry.  external:  *)
(* a server reads what it is sent; one told to end ends, by SIGKILL at last. *)
Fairness ==
  /\ SF_vars(Deliver) /\ SF_vars(Expire) /\ SF_vars(Reap) /\ SF_vars(Settle)
  /\ WF_vars(Pump) /\ WF_vars(Sleep) /\ WF_vars(Key) /\ WF_vars(Delay)
  /\ SF_vars(Serve) /\ SF_vars(Die /\ peer.told)

Spec == Init /\ [][Next]_vars /\ Fairness

-----------------------------------------------------------------------------
(* Properties.                                                               *)

(* The shape of the state of the client (LspServer, LspDoc, RpcConn). *)
TypeOK ==
  /\ buf.text \in Seq(Chars) /\ buf.gen \in 0..MaxEdits /\ buf.loaded \in BOOLEAN
  /\ (doc.open => doc.on /\ srv.state \in {"ready", "stopping"})
  /\ (doc.on => buf.loaded)
  /\ Len(doc.pending) <= PendingMax /\ (doc.full => doc.pending = <<>>)
  /\ srv.state \in {"none", "init", "ready", "dead", "stopping"}
  /\ {srv.exit, srv.timed, srv.due} \subseteq BOOLEAN
  /\ (wire.shut # "no" => wire.live /\ ~Ready)
  /\ srv.run \in {"none", "running", "exited", "execfail"}
  /\ srv.restarts \in 0..Tries /\ srv.kind \in 0..2 /\ srv.enc \in Encodings
  /\ owners \subseteq 1..srv.job
  /\ \A c \in wire.calls : c.id \in 1..(wire.next - 1)
  /\ (wire.calls # {} => wire.live)
  /\ phase \in {"poll", "events", "keys"}

(* What the server will hold once it has read all it was sent, with the      *)
(* edits still to be sent applied to it, is the text of the buffer: after    *)
(* any edits, batches, overflows, reloads and restarts (yew_lsp_doc_note_    *)
(* edit, _flush, _open).                                                     *)
Hearing(enc, copy, out) ==
  LET after[i \in 0..Len(out)] ==
        IF i = 0 THEN copy ELSE Heard(enc, after[i - 1], out[i])
  IN after
ServerWill == Hearing(peer.enc, peer.copy, wire.out)[Len(wire.out)]
LspMirror ==
  Ready /\ doc.open /\ ~doc.full /\ peer.alive =>
    Changed(peer.enc, ServerWill, doc.pending) = buf.text

(* An answer that is let through was computed on the text the buffer holds   *)
(* now, unless the buffer has been loaded again since: generations start     *)
(* over then (yew_lsp_dispatch_response, panel_request_start).               *)
AnswerFresh == shown # "stale"

(* Every call is answered, dropped, timed out or ended with its connection:  *)
(* as the bounds end new ones, none is left.                                 *)
CallsEnd == wire.calls # {} ~> wire.calls = {}

(* A server that crashed, is starting or was told to stop is ready again,    *)
(* given up or gone, for a user who keeps typing (yew_lsp_client_pump); but  *)
(* not when it was told to stop again after its input was closed.            *)
ServerBack ==
  srv.state \in {"init", "dead", "stopping"} ~>
    \/ srv.state = "ready" \/ srv.gave_up
    \/ srv.state = "stopping" /\ srv.run # "running"
    \/ wire.shut = "stuck"

(* While a server stays ready it comes to hold the text of the buffer and no *)
(* edit stays behind (the flush of yew_lsp_client_pump).                     *)
TextArrives ==
  <>[](Ready /\ srv.run = "running" /\ peer.alive /\ doc.on)
    => <>[](peer.copy = buf.text)

(* The comment of spawn_server and the help text of a crash: the server is   *)
(* off until :lsp.restart, which tries again.  So one that is given up was   *)
(* tried since.                                                              *)
RestartTries == srv.gave_up => used.tried
=============================================================================
