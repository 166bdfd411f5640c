------------------------- MODULE SqlitePropertyStore -------------------------
(***************************************************************************)
(* The property store of SqliteRepository, and the PROPPATCH requests that *)
(* write it.                                                               *)
(*                                                                         *)
(* A path's properties are a JSON file under props/ and, once touched, a   *)
(* set in a cache.  set and remove hold the cache's lock while they change *)
(* the cached set and write all of it to the file; get holds the lock to   *)
(* look into the cache and to insert, and reads the file in between        *)
(* without it.  A PROPPATCH applies its modifications one call at a time.  *)
(*                                                                         *)
(* A request's body is a sequence of <D:set> and <D:remove> blocks, see    *)
(* Block.  props/ is named by a hash of the path; here by the path.        *)
(***************************************************************************)
EXTENDS Naturals, Sequences

CONSTANTS
    Path, Name, Value, NoValue,     \* as in PropertyStore
    EmptyValue,     \* the value ""
    Garbled,        \* Garbled[n]: the name "/n"
    Client,         \* requests that can be in progress at a time
    Nobody,         \* no request
    Bodies,         \* the PROPPATCH bodies to consider
    NotCached, NoFile, Torn,    \* no set in the cache; no file; a file that does not parse
    MaxRequests,    \* bound: requests
    MaxFaults       \* bound: restarts and failed writes

VARIABLES
    cache, files,   \* Path -> a property set; the cache is lost in a restart
    lock,           \* the request that holds the cache's write lock
    pc, request,    \* where each request is, and its variables, see Request
    requests, faults,
    written,        \* history variable: what completed writes make of each path
    hurt            \* history variable: paths that met one of the hazards, see Hurt

vars == <<cache, files, lock, pc, request, requests, faults, written, hurt>>

(***************************************************************************)
(* The in-memory store is the abstract specification; its state is the     *)
(* cached set of a path, or what its file holds.                           *)
(***************************************************************************)
FileSet(p) == IF files[p] \in {NoFile, Torn} THEN [n \in Name |-> NoValue] ELSE files[p]
Contents == [p \in Path |-> IF cache[p] = NotCached THEN FileSet(p) ELSE cache[p]]
PS == INSTANCE PropertyStore WITH properties <- Contents

ASSUME StoreAssumption ==
    /\ MaxRequests \in Nat /\ MaxFaults \in Nat
    /\ Path # {}
    /\ Nobody \notin Client
    /\ EmptyValue \in Value /\ NoValue \notin Value
    /\ Garbled \in [Name -> Name]
    /\ {NotCached, NoFile, Torn} \cap PS!PropertySet = {}

(***************************************************************************)
(* A block sets or removes what its <D:prop> lists.  tight: nothing        *)
(* separates <D:prop> from what follows; bare: a tag without a namespace   *)
(* prefix.                                                                 *)
(***************************************************************************)
Element == [name : Name, value : Value, bare : BOOLEAN]
Block == [op : {"set", "remove"}, props : Seq(Element), tight : BOOLEAN]
Modification == [op : {"set", "remove"}, name : Name, value : Value]
Request == [path : Path, mods : Seq(Modification), found : PS!PropertySet]
PC == {"idle", "modify", "open", "write", "read", "insert"}

TypeOK ==
    /\ cache \in [Path -> PS!PropertySet \cup {NotCached}]
    /\ files \in [Path -> PS!PropertySet \cup {NoFile, Torn}]
    /\ lock \in Client \cup {Nobody}
    /\ pc \in [Client -> PC] /\ request \in [Client -> Request]
    /\ \A c \in Client : lock = c <=> pc[c] \in {"open", "write"}
    /\ requests \in 0..MaxRequests /\ faults \in 0..MaxFaults
    /\ written \in [Path -> PS!PropertySet]
    /\ hurt \subseteq Path

NoRequest == [path |-> CHOOSE p \in Path : TRUE, mods |-> << >>, found |-> PS!NewSet]

Init ==
    /\ cache = [p \in Path |-> NotCached]
    /\ files = [p \in Path |-> NoFile]
    /\ lock = Nobody
    /\ pc = [c \in Client |-> "idle"] /\ request = [c \in Client |-> NoRequest]
    /\ requests = 0 /\ faults = 0
    /\ written = [p \in Path |-> PS!NewSet]
    /\ hurt = {}

-----------------------------------------------------------------------------
(***************************************************************************)
(* PropPatchRequest::from_xml.  parse_property_element skips nine bytes    *)
(* for the eight of "<D:prop>", and then looks for the first '<' up to     *)
(* </D:prop>.  Where white space follows <D:prop> it finds the first       *)
(* property; where nothing does it has lost that '<' and finds the closing *)
(* tag: the name is what follows its last ':', or "/name", and there is no *)
(* value.  An empty tight <D:prop> is a slice that ends before it starts.  *)
(***************************************************************************)
Panics(body) == \E i \in DOMAIN body : body[i].tight /\ body[i].props = << >>

ParseElement(block) ==
    LET e == Head(block.props) IN
    IF block.tight
    THEN [op |-> block.op, name |-> IF e.bare THEN Garbled[e.name] ELSE e.name, value |-> EmptyValue]
    ELSE [op |-> block.op, name |-> e.name, value |-> e.value]

\* find_xml_blocks(xml, tag), without the blocks that have no property
Blocks(body, op) == SelectSeq(body, LAMBDA b : b.op = op /\ b.props # << >>)

Parsed(blocks) == [i \in DOMAIN blocks |-> ParseElement(blocks[i])]

\* all sets come first, then all removes
FromXml(body) == Parsed(Blocks(body, "set")) \o Parsed(Blocks(body, "remove"))

\* whatever the body, the parser returns a list of modifications
ASSUME BodiesAssumption ==
    \A body \in Bodies : FromXml(body) \in Seq(Modification)

-----------------------------------------------------------------------------
(***************************************************************************)
(* The generic part of proppatch_handler.  A body that makes the parser    *)
(* panic ends the request before anything is applied.                      *)
(***************************************************************************)
Proppatch(c, p, body) ==
    /\ pc[c] = "idle" /\ requests < MaxRequests
    /\ requests' = requests + 1
    /\ ~Panics(body) /\ FromXml(body) # << >>
    /\ request' = [request EXCEPT ![c] = [NoRequest EXCEPT !.path = p, !.mods = FromXml(body)]]
    /\ pc' = [pc EXCEPT ![c] = "modify"]
    /\ UNCHANGED <<cache, files, lock, faults, written, hurt>>

\* the request changes nothing: the parser panics or finds no modification
ProppatchIdle(c, body) ==
    /\ pc[c] = "idle" /\ requests < MaxRequests
    /\ requests' = requests + 1
    /\ Panics(body) \/ FromXml(body) = << >>
    /\ UNCHANGED <<cache, files, lock, pc, request, faults, written, hurt>>

Done(c) ==
    /\ pc' = [pc EXCEPT ![c] = "idle"]
    /\ request' = [request EXCEPT ![c] = NoRequest]

\* the handler's loop goes on to the next modification, or answers
NextMod(c) ==
    IF Len(request[c].mods) = 1 THEN Done(c)
    ELSE /\ pc' = [pc EXCEPT ![c] = "modify"]
         /\ request' = [request EXCEPT ![c].mods = Tail(@)]

Mod(c) == Head(request[c].mods)
PathOf(c) == request[c].path
Modify(ps, m) == IF m.op = "set" THEN PS!SetIn(ps, m.name, m.value) ELSE PS!RemoveIn(ps, m.name)

(***************************************************************************)
(* set: the lock is taken, and the cached set changed.  A path that is not *)
(* in the cache starts from an empty set, whatever its file holds.         *)
(***************************************************************************)
BeginSet(c) ==
    LET p == PathOf(c) IN
    /\ pc[c] = "modify" /\ lock = Nobody /\ Mod(c).op = "set"
    /\ lock' = c
    /\ cache' = [cache EXCEPT ![p] = Modify(IF @ = NotCached THEN PS!NewSet ELSE @, Mod(c))]
    /\ hurt' = IF cache[p] = NotCached /\ FileSet(p) # PS!NewSet THEN hurt \cup {p} ELSE hurt
    /\ pc' = [pc EXCEPT ![c] = "open"]
    /\ UNCHANGED <<files, request, requests, faults, written>>

\* Mutant: the path is taken out of the map instead of the property out of its set.
BeginRemoveAll(c) ==
    LET p == PathOf(c) IN
    /\ pc[c] = "modify" /\ lock = Nobody /\ Mod(c).op = "remove" /\ cache[p] # NotCached
    /\ lock' = c
    /\ cache' = [cache EXCEPT ![p] = PS!NewSet]
    /\ pc' = [pc EXCEPT ![c] = "open"]
    /\ UNCHANGED <<files, request, requests, faults, written, hurt>>

\* remove: likewise, but a path that is not in the cache is left alone
BeginRemove(c) ==
    LET p == PathOf(c) IN
    /\ pc[c] = "modify" /\ lock = Nobody /\ Mod(c).op = "remove"
    /\ \/ /\ cache[p] # NotCached
          /\ lock' = c
          /\ cache' = [cache EXCEPT ![p] = Modify(@, Mod(c))]
          /\ pc' = [pc EXCEPT ![c] = "open"]
          /\ UNCHANGED <<request, hurt>>
       \/ /\ cache[p] = NotCached
          /\ NextMod(c)
          /\ hurt' = IF Mod(c).name \in PS!ListOf(FileSet(p)) THEN hurt \cup {p} ELSE hurt
          /\ UNCHANGED <<lock, cache>>
    /\ UNCHANGED <<files, requests, faults, written>>

\* fs::write opens and truncates the file ...
OpenFile(c) ==
    /\ pc[c] = "open"
    /\ files' = [files EXCEPT ![PathOf(c)] = Torn]
    /\ pc' = [pc EXCEPT ![c] = "write"]
    /\ UNCHANGED <<cache, lock, request, requests, faults, written, hurt>>

\* Mutant: only the property that was set is written.
WriteFileOne(c) ==
    LET p == PathOf(c) IN
    /\ pc[c] = "write"
    /\ files' = [files EXCEPT ![p] = Modify(PS!NewSet, Mod(c))]
    /\ written' = [written EXCEPT ![p] = Modify(@, Mod(c))]
    /\ lock' = Nobody
    /\ NextMod(c)
    /\ UNCHANGED <<cache, requests, faults, hurt>>

\* ... and writes the whole set; the lock goes when the call returns
WriteFile(c) ==
    LET p == PathOf(c) IN
    /\ pc[c] = "write"
    /\ files' = [files EXCEPT ![p] = cache[p]]
    /\ written' = [written EXCEPT ![p] = Modify(@, Mod(c))]
    /\ lock' = Nobody
    /\ NextMod(c)
    /\ UNCHANGED <<cache, requests, faults, hurt>>

(***************************************************************************)
(* The file cannot be opened or not be written to the end: the request is  *)
(* answered with an error, its other modifications are not made, and the   *)
(* cached set keeps the one that was refused.                              *)
(***************************************************************************)
WriteFails(c) ==
    /\ pc[c] \in {"open", "write"} /\ faults < MaxFaults
    /\ faults' = faults + 1
    /\ lock' = Nobody
    /\ hurt' = hurt \cup {PathOf(c)}
    /\ Done(c)
    /\ UNCHANGED <<cache, files, requests, written>>

-----------------------------------------------------------------------------
(***************************************************************************)
(* get, list and contains: the cached set if there is one; otherwise the   *)
(* file is read and, if it parses, inserted into the cache, over whatever  *)
(* a set has put there in the meantime.                                    *)
(***************************************************************************)
StartGet(c, p) ==
    /\ pc[c] = "idle" /\ requests < MaxRequests /\ lock = Nobody
    /\ requests' = requests + 1
    /\ cache[p] = NotCached
    /\ request' = [request EXCEPT ![c].path = p]
    /\ pc' = [pc EXCEPT ![c] = "read"]
    /\ UNCHANGED <<cache, files, lock, faults, written, hurt>>

ReadFile(c) ==
    LET p == PathOf(c) IN
    /\ pc[c] = "read"
    /\ IF files[p] \in {NoFile, Torn}
       THEN Done(c)
       ELSE /\ request' = [request EXCEPT ![c].found = files[p]]
            /\ pc' = [pc EXCEPT ![c] = "insert"]
    /\ UNCHANGED <<cache, files, lock, requests, faults, written, hurt>>

InsertIntoCache(c) ==
    LET p == PathOf(c) IN
    /\ pc[c] = "insert" /\ lock = Nobody
    /\ cache' = [cache EXCEPT ![p] = request[c].found]
    /\ hurt' = IF files[p] # request[c].found THEN hurt \cup {p} ELSE hurt
    /\ Done(c)
    /\ UNCHANGED <<files, lock, requests, faults, written>>

-----------------------------------------------------------------------------
\* the server is killed and started again: the cache is gone, a file being
\* written stays torn
Restart ==
    /\ faults < MaxFaults
    /\ faults' = faults + 1
    /\ cache' = [p \in Path |-> NotCached]
    /\ lock' = Nobody
    /\ pc' = [c \in Client |-> "idle"] /\ request' = [c \in Client |-> NoRequest]
    /\ hurt' = hurt \cup {p \in Path : files[p] = Torn}
    /\ UNCHANGED <<files, requests, written>>

Next ==
    \/ \E c \in Client :
          \/ \E p \in Path, body \in Bodies : Proppatch(c, p, body)
          \/ \E body \in Bodies : ProppatchIdle(c, body)
          \/ BeginSet(c) \/ BeginRemove(c) \/ OpenFile(c) \/ WriteFile(c) \/ WriteFails(c)
          \/ \E p \in Path : StartGet(c, p)
          \/ ReadFile(c) \/ InsertIntoCache(c)
    \/ Restart

Spec == Init /\ [][Next]_vars

-----------------------------------------------------------------------------
Writing(p) == \E c \in Client : lock = c /\ PathOf(c) = p

(***************************************************************************)
(* What completed set and remove calls made of a path is what its file     *)
(* holds, and what is cached agrees with it, through restarts, through     *)
(* concurrent requests for the same path and through get's unlocked read.  *)
(* The exceptions are exactly the hazards of sqlite_repository.rs:134-150: *)
(* a set or remove on a path with a file that is not cached, a write that  *)
(* is cut short, and a get that inserts what it read before a set.         *)
(***************************************************************************)
WrittenIsKept ==
    \A p \in Path \ hurt :
        ~Writing(p) => /\ FileSet(p) = written[p]
                       /\ cache[p] # NotCached => cache[p] = written[p]

(***************************************************************************)
(* On a path none of these hazards touches the store behaves as the        *)
(* in-memory store of properties.rs does: every step sets or removes one   *)
(* property of one path, or changes nothing; a restart changes nothing.    *)
(***************************************************************************)
ImplementsStore ==
    /\ PS!Init
    /\ [][(hurt' = {} /\ ~\E p \in Path : Writing(p)) => PS!Next]_Contents
=============================================================================
