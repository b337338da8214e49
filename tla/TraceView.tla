----------------------------- MODULE TraceView -----------------------------
(***************************************************************************)
(* What an operator reads of an agent while it works.  The agent's CLI     *)
(* prints records; the worker (adapters/_agent_worker.py) translates them  *)
(* into lines of trace.jsonl, which grows across attempts; the dashboard   *)
(* (dashboard/state.py) parses what was appended since its last look into  *)
(* entries it keeps, merges the parts opencode has in a database of its    *)
(* own (dashboard/opencode_store.py), and answers a browser tab's poll     *)
(* from the tab's cursor on (dashboard/server.py); the tab                 *)
(* (frontend/src/lib/store.svelte.js) joins the answer to what it holds.   *)
(*                                                                         *)
(* A text is the number of the record it came from.  A line has two bytes, *)
(* one written before the other, so that a reader may find it torn.        *)
(***************************************************************************)
EXTENDS Naturals, Integers, Sequences, FiniteSets, SequencesExt

CONSTANTS
    Families,       \* the CLIs
    Tabs,           \* browser tabs that watch the agent
    MaxRecords,     \* records printed by all attempts
    MaxAttempts,    \* episodes of the node
    MaxUpsets,      \* deletions of the run, prunings of opencode's database
    HeadBytes,      \* bytes under the head digest (4096)
    MaxEntries      \* MAX_THINKING_ENTRIES

VARIABLES
    family,
    records,    \* records printed so far
    worker,     \* "none", "started", or "announced": the session was printed
    pipe,       \* lines translated and not yet in the file
    file,       \* trace.jsonl: whole lines, a torn last one, inode, generation
    rows,       \* opencode's parts of the session
    attempts, upsets,
    heap,       \* _TraceCacheEntry objects
    cached,     \* the one in _trace_cache, 0 for none
    shelf,      \* _opencode_cache: parts once read
    polls,      \* each tab's request and how far the server is with it
    feeds       \* what each tab holds

writing == <<family, records, worker, pipe, file, rows, attempts, upsets>>
serving == <<heap, cached, shelf>>
traceVars == <<writing, serving, polls, feeds>>

-----------------------------------------------------------------------------
(* Records of each CLI and the lines they are translated to                *)

Claude == [init |-> <<"logdir">>, thinking |-> <<"think">>, text |-> <<"say">>,
           fenced |-> <<"save">>, tool_use |-> <<"call">>,
           tool_result |-> <<"result">>, result |-> <<"say", "usage">>,
           system |-> <<>>, unknown |-> <<"raw">>]
Codex == [thread_started |-> <<"logdir">>, reasoning |-> <<"think">>,
          agent_message |-> <<"say">>, fenced |-> <<"save">>, started |-> <<"call">>,
          command |-> <<"result", "result">>, turn_completed |-> <<"usage">>,
          turn_failed |-> <<"error">>, updated |-> <<>>, unknown |-> <<"raw">>]
Opencode == [step_start |-> <<"logdir">>, reasoning |-> <<"think">>,
             text |-> <<"say">>, tool |-> <<"call", "result">>,
             step_finish |-> <<"usage">>, error |-> <<"error">>,
             unknown |-> <<"raw">>]
Antigravity == [init |-> <<"logdir">>, thinking |-> <<"think">>,
                agent_response |-> <<"say">>, fenced |-> <<"save">>,
                active |-> <<"call">>, done |-> <<"result">>,
                result |-> <<"usage">>, failed |-> <<"error", "usage">>,
                other |-> <<>>, unknown |-> <<"raw">>]
Table == [claude |-> Claude, codex |-> Codex, opencode |-> Opencode,
          antigravity |-> Antigravity]

Line(kind, id, k) == [kind |-> kind, id |-> id, at |-> 3 * id + k]
Translated(r, id) ==
    LET kinds == Table[family][r]
    IN  [k \in DOMAIN kinds |-> Line(kinds[k], id, k)]

\* _pump: a session already announced is not announced again.
Pumped(lines) ==
    SelectSeq(lines, LAMBDA l : ~(l.kind = "logdir" /\ worker = "announced"))

-----------------------------------------------------------------------------
(* Entries                                                                 *)

Entry(role, texts, at) == [role |-> role, texts |-> texts, at |-> at, usage |-> 0]
Blank == [entries |-> <<>>, disk |-> 0]     \* disk: file_state of the saved path

Role == [logdir |-> "logdir", think |-> "thinking", say |-> "assistant",
         call |-> "tool_call", result |-> "tool", error |-> "error",
         raw |-> "raw", boundary |-> "system"]
TakesUsage == {"tool_call", "tool", "assistant", "diff", "thinking"}

Plus(p, e) == [p EXCEPT !.entries = Append(@, e)]

\* Usage is the last entry's that may have cost it, else an entry of its own.
PlusUsage(p, l) ==
    LET costly == {i \in DOMAIN p.entries : p.entries[i].role \in TakesUsage}
    IN  IF costly = {} THEN Plus(p, [Entry("usage", <<l.id>>, l.at) EXCEPT !.usage = l.id])
        ELSE [p EXCEPT !.entries[CHOOSE i \in costly : \A j \in costly : j <= i].usage = l.id]

\* A thought joins the thought before it.
PlusThought(p, l) ==
    IF p.entries # <<>> /\ Last(p.entries).role = "thinking"
      THEN [p EXCEPT !.entries[Len(p.entries)].texts = Append(@, l.id)]
      ELSE Plus(p, Entry("thinking", <<l.id>>, l.at))

\* A block that saves a path is a call, and a diff against its last content.
PlusSave(p, l) ==
    [Plus(Plus(p, Entry("tool_call", <<l.id>>, l.at)),
          Entry("diff", <<p.disk, l.id>>, l.at)) EXCEPT !.disk = l.id]

ParseLine(p, l) ==
    CASE l.kind = "usage" -> PlusUsage(p, l)
      [] l.kind = "think" -> PlusThought(p, l)
      [] l.kind = "save"  -> PlusSave(p, l)
      [] OTHER            -> Plus(p, Entry(Role[l.kind], <<l.id>>, l.at))

Parsed(p, lines) == FoldLeft(ParseLine, p, lines)

-----------------------------------------------------------------------------
(* Parts of opencode's database                                            *)

PartKinds == [reasoning |-> "think", text |-> "say", tool |-> "tool",
              step_finish |-> "usage"]

\* The store has a call by its bare name, which is not what the worker prints.
PartEntries(part) ==
    LET at == 3 * part.id
    IN  CASE part.kind = "think" -> <<Entry("thinking", <<part.id>>, at)>>
          [] part.kind = "say"   -> <<Entry("assistant", <<part.id>>, at)>>
          [] part.kind = "usage" -> <<Entry("usage", <<part.id>>, at)>>
          [] part.kind = "tool"  -> <<Entry("tool_call", <<-part.id>>, at),
                                      Entry("tool", <<part.id>>, at)>>

Mark(parts) == IF parts = {} THEN 0 ELSE Max({p.id : p \in parts})

\* read_session_entries: what was read once is kept whatever is pruned.
ShelvedRows(s) == [mark |-> Mark(rows), parts |-> rows]
Shelved(s) ==
    IF s.mark = Mark(rows) THEN s
    ELSE [mark |-> Mark(rows), parts |-> s.parts \cup rows]

Extra(s) ==
    FoldLeft(LAMBDA done, part : done \o PartEntries(part), <<>>,
             SetToSortSeq(s.parts, LAMBDA a, b : a.id < b.id))

IdentityStamped(e) == <<e.role, e.texts, e.at>>
Identity(e) == <<e.role, e.texts>>

\* As often as the file has an entry, the store's is left out.
Unmatched(entries, extra) ==
    LET Copies(s, e) == Cardinality({i \in DOMAIN s : Identity(s[i]) = Identity(e)})
        kept == {i \in DOMAIN extra :
                   Copies(SubSeq(extra, 1, i), extra[i]) > Copies(entries, extra[i])}
    IN  [k \in 1..Cardinality(kept) |-> extra[SetToSortSeq(kept, <)[k]]]

Inserted(s, e) ==
    SelectSeq(s, LAMBDA x : x.at <= e.at) \o <<e>> \o SelectSeq(s, LAMBDA x : x.at > e.at)
MergedByTimestamp(entries, extra) == FoldLeft(Inserted, entries, Unmatched(entries, extra))

-----------------------------------------------------------------------------
(* The file and who writes it                                              *)

NoFile(gen) == [lines |-> <<>>, torn |-> FALSE, inode |-> 0, gen |-> gen]
Size == 2 * Len(file.lines) + (IF file.torn THEN 1 ELSE 0)

Rest == [pc |-> "idle", since |-> 0, size |-> 0, gen |-> 0, obj |-> 0,
         chunk |-> <<>>, read |-> 0, reply |-> <<>>, from |-> 0, reset |-> FALSE]
NoObject == [inode |-> 0, offset |-> 0, head |-> <<0, 0>>, parsed |-> Blank]
NoFeed == [loaded |-> FALSE, held |-> <<>>, next |-> 0, gen |-> 0]
Objects == 1..Cardinality(Tabs) + 1

TraceInit ==
    /\ family \in Families /\ records = 0 /\ worker = "none" /\ pipe = <<>>
    /\ file = NoFile(1) /\ rows = {} /\ attempts = 0 /\ upsets = 0
    /\ heap = [o \in Objects |-> NoObject] /\ cached = 0
    /\ shelf = [mark |-> 0, parts |-> {}]
    /\ polls = [t \in Tabs |-> Rest] /\ feeds = [t \in Tabs |-> NoFeed]

\* An attempt begins; the one before it has ended, or was killed with lines
\* unprinted.  run_node puts a boundary where it ended; after a torn line
\* the boundary is the rest of that line.
Start ==
    /\ attempts < MaxAttempts
    /\ attempts' = attempts + 1 /\ worker' = "started"
    /\ pipe' = <<Line("logdir", records, 2)>>
    /\ file' = IF Size = 0 THEN file
               ELSE [file EXCEPT !.torn = FALSE,
                        !.lines = Append(@, Line(IF file.torn THEN "raw" ELSE "boundary",
                                                 records, 2))]
    /\ UNCHANGED <<family, records, rows, upsets>>

\* A record: opencode has it in its database before it prints it.
Emit ==
    /\ worker # "none" /\ pipe = <<>> /\ records < MaxRecords
    /\ \E r \in DOMAIN Table[family] :
         /\ records' = records + 1
         /\ pipe' = Pumped(Translated(r, records + 1))
         /\ worker' = IF \E i \in DOMAIN pipe' : pipe'[i].kind = "logdir"
                        THEN "announced" ELSE worker
         /\ rows' = IF family = "opencode" /\ r \in DOMAIN PartKinds
                      THEN rows \cup {[id |-> records + 1, kind |-> PartKinds[r]]} ELSE rows
    /\ UNCHANGED <<family, file, attempts, upsets>>

\* The file the next line goes to; a new one has any inode.
Opened ==
    IF file.inode # 0 THEN {file} ELSE {[file EXCEPT !.inode = i] : i \in 1..file.gen}

PrintLine ==
    /\ pipe # <<>>
    /\ \E f \in Opened :
         file' = [f EXCEPT !.torn = FALSE, !.lines = Append(@, Head(pipe))]
    /\ pipe' = Tail(pipe)
    /\ UNCHANGED <<family, records, worker, rows, attempts, upsets>>

\* A line is in the file in part; the rest of it follows, or never does.
Tear ==
    /\ pipe # <<>> /\ ~file.torn /\ upsets < MaxUpsets
    /\ upsets' = upsets + 1
    /\ \E f \in Opened : file' = [f EXCEPT !.torn = TRUE]
    /\ UNCHANGED <<family, records, worker, pipe, rows, attempts>>

\* The run is stopped and deleted, and one of the same name will find other inodes or
\* the same; its sessions are new ones.
DeleteRun ==
    /\ file.inode # 0 /\ upsets < MaxUpsets /\ upsets' = upsets + 1
    /\ file' = NoFile(file.gen + 1) /\ rows' = {} /\ worker' = "none" /\ pipe' = <<>>
    /\ UNCHANGED <<family, records, attempts>>

\* opencode compacts a session.
Prune ==
    /\ upsets < MaxUpsets /\ upsets' = upsets + 1
    /\ \E part \in rows : rows' = rows \ {part}
    /\ UNCHANGED <<family, records, worker, pipe, file, attempts>>

Writes == Start \/ Emit \/ PrintLine \/ Tear \/ DeleteRun \/ Prune

-----------------------------------------------------------------------------
(* A poll                                                                  *)

Asked(t) ==
    [Rest EXCEPT !.since = IF feeds[t].loaded THEN feeds[t].next ELSE 0,
                 !.gen = file.gen, !.read = Len(file.lines)]
HeadOf(bytes) == <<file.gen, Min({bytes, HeadBytes})>>

\* The cached parse is of another file, or of one that shrank since.
ForeignByName(c) == Size < c.offset
Foreign(c) ==
    \/ c.inode # file.inode \/ Size < c.offset
    \/ c.offset > 0 /\ c.head # HeadOf(c.offset)

\* The tab asks from its cursor on; the server looks at the file and takes
\* the object it parsed it into, or a new one when it was another file.
Look(t) ==
    /\ polls[t].pc = "idle" /\ file.inode # 0
    /\ LET fresh == cached = 0 \/ Foreign(heap[cached])
           held == {polls[u].obj : u \in Tabs} \cup {cached}
           o == IF fresh THEN CHOOSE x \in Objects : x \notin held ELSE cached
       IN  /\ heap' = IF fresh THEN [heap EXCEPT ![o] = [NoObject EXCEPT !.inode = file.inode]]
                      ELSE heap
           /\ polls' = [polls EXCEPT ![t] =
                [Asked(t) EXCEPT !.obj = o, !.size = Min({Size, HeadBytes}),
                    !.pc = IF Size > heap'[o].offset THEN "taken" ELSE "nothing new"]]
    /\ UNCHANGED <<cached, shelf, feeds>>

LookInVain(t) ==
    /\ polls[t].pc = "idle" /\ file.inode = 0
    /\ polls' = [polls EXCEPT ![t] = [Asked(t) EXCEPT !.pc = "nothing new"]]
    /\ cached' = 0
    /\ UNCHANGED <<heap, shelf, feeds>>

\* Only whole lines are taken; a torn one is read again when it is whole.
ChunkTorn(from) ==
    SubSeq(file.lines, from + 1, Len(file.lines))
        \o (IF file.torn THEN <<Line("raw", records, 2)>> ELSE <<>>)
Chunk(from) == SubSeq(file.lines, from + 1, Len(file.lines))

Read(t) ==
    /\ polls[t].pc = "taken" /\ file.inode # 0
    /\ LET o == polls[t].obj
       IN  /\ polls' = [polls EXCEPT ![t].pc = "read",
                            ![t].chunk = Chunk(heap[o].offset \div 2),
                            ![t].read = Len(file.lines)]
           /\ heap' = IF heap[o].offset # 0 THEN heap
                      ELSE [heap EXCEPT ![o].head = HeadOf(polls[t].size)]
    /\ UNCHANGED <<cached, shelf, feeds>>

\* The file is gone since: the request fails, and the tab makes do.
ReadFails(t) ==
    /\ polls[t].pc = "taken" /\ file.inode = 0
    /\ polls' = [polls EXCEPT ![t] = Rest]
    /\ feeds' = [feeds EXCEPT ![t].loaded = TRUE]
    /\ UNCHANGED serving

\* Where the answer begins: at the last entry the tab has, for it may have
\* grown; at the first when the tab has more than there is.
FirstAfter(since, total) ==
    IF since > total THEN 1
    ELSE IF since > 0 THEN since + 1
    ELSE Max({1, total - MaxEntries + 1})
FirstEntry(since, total) ==
    IF since > total THEN 1
    ELSE IF since > 0 THEN since
    ELSE Max({1, total - MaxEntries + 1})

\* What was read is parsed into the object, which is cached again.
Answer(t) ==
    /\ polls[t].pc \in {"read", "nothing new"}
    /\ LET p == polls[t]
           more == IF p.obj = 0 THEN NoObject
                   ELSE [heap[p.obj] EXCEPT !.parsed = Parsed(@, p.chunk),
                                            !.offset = @ + 2 * Len(p.chunk)]
           shelved == Shelved(shelf)
           reply == MergedByTimestamp(more.parsed.entries, Extra(shelved))
           InUse(o) == \E u \in Tabs : polls[u].obj = o
       IN  /\ cached' = IF p.obj = 0 THEN cached ELSE p.obj
           /\ heap' = [o \in Objects |->
                IF o = p.obj THEN more
                ELSE IF InUse(o) \/ o = cached' THEN heap[o] ELSE NoObject]
           /\ shelf' = shelved
           /\ polls' = [polls EXCEPT ![t] =
                [Rest EXCEPT !.pc = "answered", !.gen = p.gen, !.read = p.read,
                    !.reply = reply, !.from = FirstEntry(p.since, Len(reply)),
                    !.reset = p.since > Len(reply)]]
    /\ UNCHANGED feeds

\* fetchFeed: what is held from the first incoming entry on is replaced.
Receive(t) ==
    /\ polls[t].pc = "answered"
    /\ LET p == polls[t]
           incoming == Restrict([i \in DOMAIN p.reply |-> p.reply[i]],
                                p.from..Len(p.reply))
           anew == ~feeds[t].loaded \/ p.reset
           kept == IF anew THEN <<>>
                   ELSE IF p.from > Len(p.reply) THEN feeds[t].held
                   ELSE Restrict(feeds[t].held, {i \in DOMAIN feeds[t].held : i < p.from})
       IN  feeds' = [feeds EXCEPT ![t] =
             [loaded |-> TRUE, held |-> incoming @@ kept, next |-> Len(p.reply),
              gen |-> IF anew \/ feeds[t].held = <<>> THEN p.gen ELSE @.gen]]
    /\ polls' = [polls EXCEPT ![t] = Rest]
    /\ UNCHANGED serving

Poll(t) == Look(t) \/ LookInVain(t) \/ Read(t) \/ ReadFails(t) \/ Answer(t) \/ Receive(t)

TraceNext ==
    \/ Writes /\ UNCHANGED <<serving, polls, feeds>>
    \/ \E t \in Tabs : Poll(t) /\ UNCHANGED writing

-----------------------------------------------------------------------------
(* Properties                                                              *)

TraceTypeOK ==
    /\ family \in Families /\ records \in 0..MaxRecords
    /\ worker \in {"none", "started", "announced"} /\ Len(pipe) <= 2
    /\ file.torn \in BOOLEAN /\ file.inode \in 0..MaxUpsets + 1
    /\ attempts \in 0..MaxAttempts /\ upsets \in 0..MaxUpsets
    /\ cached \in Objects \cup {0}
    /\ \A r \in rows : r.id \in 1..records
    /\ \A o \in Objects : heap[o].head[1] = file.gen => heap[o].offset <= Size
    /\ \A t \in Tabs :
         /\ polls[t].pc \in 
              {"idle", "taken", "read", "nothing new", "answered"}
         /\ polls[t].obj \in Objects \cup {0}
         /\ feeds[t].next \in Nat /\ feeds[t].loaded \in BOOLEAN

(* Parsing what was appended since the last look gives what parsing the    *)
(* whole file gives (merged thoughts, diffs against the content saved two  *)
(* polls ago, a line torn in between), and nothing that was in the file    *)
(* when the poll looked is missing, whatever attempt or file was cached.   *)
AnswerIsTheFile ==
    \A t \in Tabs :
        (polls[t].pc = "answered" /\ file.gen = polls[t].gen /\ family # "opencode") =>
            \E k \in polls[t].read..Len(file.lines) :
                polls[t].reply = Parsed(Blank, SubSeq(file.lines, 1, k)).entries

(* Once a tab has joined an answer to what it holds, it holds the texts    *)
(* the server has, from its first entry to the last, though the last it    *)
(* held may have grown in the meantime.  opencode's parts are put between  *)
(* entries a cursor has passed, which is why it is left out.               *)
TabHoldsText ==
    [][\A t \in Tabs :
         (/\ family # "opencode" /\ polls[t].pc = "answered" /\ polls'[t].pc = "idle"
          /\ polls[t].gen \in {feeds'[t].gen} \cap {file.gen}) =>
            LET held == feeds'[t].held
                all == polls[t].reply
            IN  \A i \in 1..Len(all) :
                  \/ i \in DOMAIN held /\ held[i].texts = all[i].texts
                  \/ \A j \in DOMAIN held : i < j]_traceVars

Words(entries) == UNION {ToSet(entries[i].texts) : i \in DOMAIN entries}

(* opencode_store: "nothing ever vanishes from the feed once displayed",   *)
(* though opencode prunes its parts and the worker dies within a line.     *)
NothingVanishes ==
    \A t \in Tabs :
        (polls[t].pc = "answered" /\ polls[t].gen \in {feeds[t].gen} \cap {file.gen}) =>
            Words(feeds[t].held) \subseteq Words(polls[t].reply)

Told(t, role, id) ==
    Cardinality({i \in DOMAIN polls[t].reply :
                   /\ polls[t].reply[i].role = role
                   /\ polls[t].reply[i].texts \in {<<id>>, <<-id>>}})

(* A message opencode has in its database and the worker in the file is    *)
(* shown once, though the two stamp it differently.                        *)
SaidOnce ==
    \A t \in Tabs : polls[t].pc = "answered" =>
        \A id \in 1..records : Told(t, "assistant", id) <= 1
=============================================================================
