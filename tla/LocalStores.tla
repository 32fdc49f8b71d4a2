----------------------------- MODULE LocalStores -----------------------------
(* The user's durable data: chat sessions (chat_store.py), memory records      *)
(* (memory.py), and the requests of the threaded web server, the command line  *)
(* and the tool runner that read and rewrite them (web.py, chat_runtime.py,    *)
(* data_bundle.py).                                                            *)
(*                                                                             *)
(* Each store is one file, rewritten whole: read, write FILE.tmp, rename over  *)
(* FILE.  The chat store's lock belongs to the instance: the web server's      *)
(* requests share one, while every tool call and every command line process    *)
(* builds its own on the same file, so that nothing keeps their reads, their   *)
(* FILE.tmp and their renames apart.  The memory store has no lock, and adds a *)
(* record by appending a line.  The write of FILE.tmp is one step: it goes to  *)
(* the same file whether or not somebody renames it in the middle.             *)
EXTENDS Integers, FiniteSets

CONSTANTS
    Requests,   \* one operation each; also names the exchange or record it makes
    Ops,        \* operations the instance exercises
    Old         \* the exchange and, its validity ended, the record there from the start

VARIABLES chats, memory, tmp, holder, rq, acked, kept, forfeit, removed

storeVars == <<chats, memory, tmp, holder, rq, acked, kept, forfeit, removed>>

Files == {"chat", "memory"}
First == "s0"                     \* the session there from the start
Free == "free"

\* A bundle exported earlier: the first session, empty, and no records.
Bundle == [s \in {First} |-> {}]

GoOn(r, pc) == rq' = [rq EXCEPT ![r].pc = pc]

\* What the request has read is forgotten.
Left(r, pc) == rq' = [rq EXCEPT ![r] = [@ EXCEPT !.pc = pc, !.new = Bundle, !.mem = {}, !.out = {}]]

\* The instance of FileChatStore a request goes through.
Instances == {"shared", "own"}

-----------------------------------------------------------------------------
(* Requests *)

\* A chat turn reads its session, if it names one, for the context ...
BeginTurn(r) ==
    /\ "turn" \in Ops /\ rq[r].pc = "idle"
    /\ \E s \in {First, r}, i \in Instances :
          rq' = [rq EXCEPT ![r] = [@ EXCEPT !.op = "turn", !.sid = s, !.store = i,
                    !.pc = IF s = First /\ s \notin DOMAIN chats THEN "refused" ELSE "generate"]]
    /\ UNCHANGED <<chats, memory, tmp, holder, acked, kept, forfeit, removed>>

\* ... as compaction does, to summarise its turns.
BeginCompact(r) ==
    /\ "compact" \in Ops /\ rq[r].pc = "idle"
    /\ \E i \in Instances :
          rq' = [rq EXCEPT ![r] = [@ EXCEPT !.op = "compact", !.sid = First, !.store = i,
                    !.pc = IF First \notin DOMAIN chats \/ chats[First] = {} THEN "refused" ELSE "generate"]]
    /\ UNCHANGED <<chats, memory, tmp, holder, acked, kept, forfeit, removed>>

\* The model answers, or fails and nothing is written.
Generate(r) ==
    /\ rq[r].pc = "generate"
    /\ \E next \in {"chat", "refused"} : GoOn(r, next)
    /\ UNCHANGED <<chats, memory, tmp, holder, acked, kept, forfeit, removed>>

\* A rename, a confirmed deletion, ...
Begin(r, op, mode, i) ==
    /\ op \in Ops /\ rq[r].pc = "idle"
    /\ rq' = [rq EXCEPT ![r] = [@ EXCEPT !.op = op, !.mode = mode, !.store = i, !.pc = "chat"]]
    /\ UNCHANGED <<chats, memory, tmp, holder, acked, kept, forfeit, removed>>

BeginRename(r) == \E i \in Instances : Begin(r, "rename", "none", i)
BeginDelete(r) == \E i \in Instances : Begin(r, "delete", "none", i)

\* ... a confirmed import by the web server, or by a tool.
BeginImport(r) == \E m \in {"merge", "replace"} : Begin(r, "import", m, "shared")
BeginToolImport(r) == \E m \in {"merge", "replace"} : Begin(r, "import", m, "own")

-----------------------------------------------------------------------------
(* The chat store *)

\* restore_sessions: sessions of the bundle replace those of the same id.
Restored(mode) ==
    IF mode = "replace" THEN Bundle
    ELSE [s \in DOMAIN chats \cup DOMAIN Bundle |-> IF s \in DOMAIN Bundle THEN Bundle[s] ELSE chats[s]]

\* Mutant of AppendExchange: the session read before generation is written back.
AppendToSnapshot(r) ==
    IF rq[r].sid = First /\ First \in DOMAIN chats THEN [chats EXCEPT ![First] = {r}]
    ELSE [s \in DOMAIN chats \cup {r} |-> IF s = r THEN {r} ELSE chats[s]]

\* append_exchange: to the session as it is now, or to a new one.
AppendExchange(r) ==
    IF rq[r].sid = First THEN [chats EXCEPT ![First] = @ \cup {r}]
    ELSE [s \in DOMAIN chats \cup {r} |-> IF s = r THEN {r} ELSE chats[s]]

\* What the request makes of the file.
Rewritten(r) ==
    CASE rq[r].op = "turn" -> AppendExchange(r)
      [] rq[r].op \in {"compact", "rename"} -> chats
      [] rq[r].op = "delete" -> [s \in DOMAIN chats \ {First} |-> chats[s]]
      [] OTHER -> Restored(rq[r].mode)

Rewriting(r) == rq[r].pc \in {"chattmp", "chatrename"}

\* The instance's lock is taken and the file read; a session that is gone ends the request.
ChatRead(r) ==
    /\ rq[r].pc = "chat"
    /\ rq[r].store = "own" \/ holder = Free
    /\ IF rq[r].op # "import" /\ rq[r].sid = First /\ First \notin DOMAIN chats
       THEN GoOn(r, "refused") /\ UNCHANGED holder
       ELSE /\ rq' = [rq EXCEPT ![r] = [@ EXCEPT !.pc = "chattmp", !.new = Rewritten(r)]]
            /\ holder' = IF rq[r].store = "own" THEN holder ELSE r
    /\ UNCHANGED <<chats, memory, tmp, acked, kept, forfeit, removed>>

ChatTmp(r) ==
    /\ rq[r].pc = "chattmp"
    /\ tmp' = [tmp EXCEPT !.chat = <<rq[r].new>>]
    /\ GoOn(r, "chatrename")
    /\ UNCHANGED <<chats, memory, holder, acked, kept, forfeit, removed>>

\* The session an exchange was made for, and the exchanges a request means to drop.
Home(x) == IF x = Old THEN First ELSE rq[x].sid
Drops(r, x) ==
    \/ rq[r].op = "delete" /\ Home(x) = First
    \/ rq[r].op = "import" /\ (rq[r].mode = "merge" => Home(x) = First)

\* Requests through other instances that have read the file and not yet renamed.
Beside(r) == {q \in Requests \ {r} : Rewriting(q)}

\* The rename publishes whatever FILE.tmp holds; without one it raises.  What the
\* request or one beside it means to drop is forfeit, and so is an exchange whose
\* rename another instance's rewrite is yet to follow, from its earlier read.
ChatRename(r) ==
    /\ rq[r].pc = "chatrename"
    /\ IF tmp.chat = <<>> THEN UNCHANGED <<chats, tmp, acked, forfeit, removed>> /\ Left(r, "refused")
       ELSE /\ chats' = tmp.chat[1]
            /\ tmp' = [tmp EXCEPT !.chat = <<>>]
            /\ acked' = IF rq[r].op = "turn" THEN acked \cup {r} ELSE acked
            /\ forfeit' = forfeit \cup {x \in acked : \E q \in Beside(r) \cup {r} : Drops(q, x)}
                                  \cup (IF rq[r].op = "turn" /\ Beside(r) # {} THEN {r} ELSE {})
            /\ removed' = IF rq[r].op = "delete" /\ Beside(r) = {} THEN {First}
                          ELSE IF \E q \in Beside(r) \cup {r} : rq[q].op = "import" THEN {} ELSE removed
            /\ Left(r, IF rq[r].op = "import" THEN "memory" ELSE "done")
    /\ holder' = IF holder = r THEN Free ELSE holder
    /\ UNCHANGED <<memory, kept>>

-----------------------------------------------------------------------------
(* The memory store *)

\* A record, or a chunk of a document, is appended.
MemoryAdd(r) ==
    /\ "add" \in Ops /\ rq[r].pc = "idle"
    /\ memory' = memory \cup {r} /\ kept' = kept \cup {r}
    /\ rq' = [rq EXCEPT ![r].op = "add", ![r].pc = "done"]
    /\ UNCHANGED <<chats, tmp, holder, acked, forfeit, removed>>

\* The file is read, and what stays decided.
MemoryRead(r, op, out, next) ==
    /\ op \in Ops
    /\ rq' = [rq EXCEPT ![r] = [@ EXCEPT !.op = op, !.out = out, !.mem = memory \ out, !.pc = next]]
    /\ UNCHANGED <<chats, memory, tmp, holder, acked, kept, forfeit, removed>>

\* Nothing is written when nothing matches.
MemoryPrune(r) ==
    /\ rq[r].pc = "idle"
    /\ MemoryRead(r, "prune", memory \cap {Old}, IF Old \in memory THEN "memorytmp" ELSE "done")

\* One record by its id, or the records of one document.
MemoryForget(r) ==
    /\ rq[r].pc = "idle"
    /\ \E x \in kept \cup {Old} :
          MemoryRead(r, "forget", memory \cap {x}, IF x \in memory THEN "memorytmp" ELSE "done")

\* The second half of an import; the bundle holds no records.
MemoryRestore(r) ==
    /\ rq[r].pc = "memory"
    /\ MemoryRead(r, rq[r].op, IF rq[r].mode = "replace" THEN memory ELSE {}, "memorytmp")

MemoryTmp(r) ==
    /\ rq[r].pc = "memorytmp"
    /\ tmp' = [tmp EXCEPT !.memory = <<rq[r].mem>>]
    /\ GoOn(r, "memoryrename")
    /\ UNCHANGED <<chats, memory, holder, acked, kept, forfeit, removed>>

MemoryRename(r) ==
    /\ rq[r].pc = "memoryrename"
    /\ IF tmp.memory = <<>> THEN UNCHANGED <<memory, tmp, kept>> /\ Left(r, "refused")
       ELSE /\ memory' = tmp.memory[1]
            /\ tmp' = [tmp EXCEPT !.memory = <<>>]
            /\ kept' = IF rq[r].op = "prune" THEN kept ELSE kept \ rq[r].out
            /\ Left(r, "done")
    /\ UNCHANGED <<chats, holder, acked, forfeit, removed>>

-----------------------------------------------------------------------------
StoreInit ==
    /\ chats = [s \in {First} |-> {Old}] /\ memory = {Old}
    /\ tmp = [f \in Files |-> <<>>]
    /\ holder = Free
    /\ rq = [r \in Requests |-> [op |-> "none", pc |-> "idle", sid |-> First, mode |-> "merge", store |-> "shared",
                                 new |-> Bundle, mem |-> {}, out |-> {}]]
    /\ acked = {Old} /\ kept = {} /\ forfeit = {} /\ removed = {}

StoreNext ==
    \E r \in Requests :
       \/ BeginTurn(r) \/ BeginCompact(r) \/ Generate(r) \/ BeginRename(r) \/ BeginDelete(r)
       \/ BeginImport(r) \/ BeginToolImport(r)
       \/ ChatRead(r) \/ ChatTmp(r) \/ ChatRename(r)
       \/ MemoryAdd(r) \/ MemoryPrune(r) \/ MemoryForget(r) \/ MemoryRestore(r)
       \/ MemoryTmp(r) \/ MemoryRename(r)

StoreSpec == StoreInit /\ [][StoreNext]_storeVars

-----------------------------------------------------------------------------
(* Properties *)

\* An exchange the user was told is saved stays saved, in whatever order turns,
\* compactions, renames, deletions and imports meet, through one instance of the
\* store or several: it is lost only with its session, deleted or replaced by an
\* import, or when another instance (a tool call, a command line process) had read
\* the file before it was saved and rewrites it afterwards.  And a session deleted
\* while no other instance was rewriting comes back with an import only.
ChatsKept ==
    /\ acked \ forfeit \subseteq UNION {chats[s] : s \in DOMAIN chats}
    /\ First \in removed => First \notin DOMAIN chats

\* Pruning "deletes only records whose valid_until timestamp is expired"
\* (agent-runtime.md): a record added and never forgotten is still there.
PruneOnlyExpired == kept \subseteq memory

=============================================================================
