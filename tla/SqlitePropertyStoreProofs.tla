---------------------- MODULE SqlitePropertyStoreProofs ----------------------
(***************************************************************************)
(* Theorems about SqlitePropertyStore, for every set of paths, names,      *)
(* values, bodies and requests and any number of restarts and failures.    *)
(***************************************************************************)
EXTENDS SqlitePropertyStore, SequenceTheorems, TLAPS

(***************************************************************************)
(* A request that is inside set or remove has a modification to make.      *)
(***************************************************************************)
RequestInv ==
    \A c \in Client : pc[c] \in {"modify", "open", "write"} => request[c].mods # << >>

(***************************************************************************)
(* While a request holds the lock, the cached set is what the write will   *)
(* make of the path; the file is still what it was, and torn while it is   *)
(* being written.                                                          *)
(***************************************************************************)
WriterInv ==
    \A c \in Client : lock = c =>
        /\ cache[PathOf(c)] # NotCached
        /\ PathOf(c) \notin hurt =>
              /\ cache[PathOf(c)] = Modify(written[PathOf(c)], Mod(c))
              /\ pc[c] = "open" => FileSet(PathOf(c)) = written[PathOf(c)]
              /\ pc[c] = "write" => files[PathOf(c)] = Torn

StoreInv == TypeOK /\ RequestInv /\ WriterInv /\ WrittenIsKept

-----------------------------------------------------------------------------
(***************************************************************************)
(* Types of the operators on property sets.                                *)
(***************************************************************************)
LEMMA SetTypes ==
    /\ PS!NewSet \in PS!PropertySet
    /\ \A ps \in PS!PropertySet, m \in Modification : Modify(ps, m) \in PS!PropertySet
    /\ NotCached \notin PS!PropertySet /\ NoFile \notin PS!PropertySet /\ Torn \notin PS!PropertySet
<1>1. PS!NewSet \in PS!PropertySet
  BY DEF PS!NewSet, PS!PropertySet
<1>2. ASSUME NEW ps \in PS!PropertySet, NEW m \in Modification
      PROVE  Modify(ps, m) \in PS!PropertySet
  <2>1. m.name \in Name /\ m.value \in Value
    BY DEF Modification
  <2> QED BY <2>1 DEF Modify, PS!SetIn, PS!RemoveIn, PS!PropertySet
<1>3. NotCached \notin PS!PropertySet /\ NoFile \notin PS!PropertySet /\ Torn \notin PS!PropertySet
  BY StoreAssumption
<1> QED BY <1>1, <1>2, <1>3

LEMMA FileSetType ==
    ASSUME TypeOK, NEW p \in Path
    PROVE  FileSet(p) \in PS!PropertySet
<1>1. [n \in Name |-> NoValue] \in PS!PropertySet
  BY DEF PS!PropertySet
<1> QED BY <1>1 DEF TypeOK, FileSet

LEMMA NoRequestType == NoRequest \in Request
<1>1. (CHOOSE p \in Path : TRUE) \in Path
  BY StoreAssumption
<1>2. << >> \in Seq(Modification)
  OBVIOUS
<1> QED BY <1>1, <1>2, SetTypes DEF NoRequest, Request

(***************************************************************************)
(* A request that is modifying has a well-typed modification at hand, and  *)
(* what is left of the list when there is more than one is not empty.      *)
(***************************************************************************)
LEMMA ModTypes ==
    ASSUME TypeOK, RequestInv, NEW c \in Client, pc[c] \in {"modify", "open", "write"}
    PROVE  /\ Mod(c) \in Modification
           /\ PathOf(c) \in Path
           /\ Len(request[c].mods) # 1 =>
                 Tail(request[c].mods) \in Seq(Modification) /\ Tail(request[c].mods) # << >>
<1>1. request[c] \in Request
  BY DEF TypeOK
<1>2. request[c].mods \in Seq(Modification) /\ request[c].mods # << >> /\ request[c].path \in Path
  BY <1>1 DEF Request, RequestInv
<1>3. ASSUME NEW s \in Seq(Modification), s # << >>
      PROVE  /\ Head(s) \in Modification
             /\ Tail(s) \in Seq(Modification)
             /\ Len(s) # 1 => Tail(s) # << >>
  <2>1. /\ Head(s) \in Modification /\ Tail(s) \in Seq(Modification)
        /\ Len(Tail(s)) = Len(s) - 1
    BY <1>3, HeadTailProperties
  <2>2. Len(s) \in Nat /\ Len(s) - 1 = 0 => Len(s) = 1
    OBVIOUS
  <2> QED BY <2>1, <2>2, EmptySeq, LenProperties
<1> QED BY <1>2, <1>3 DEF Mod, PathOf

(***************************************************************************)
(* The end of a call: the request is over or goes on with the rest of its  *)
(* list, and holds no lock either way.                                     *)
(***************************************************************************)
Moves(c) ==
    /\ \A d \in Client \ {c} : pc'[d] = pc[d] /\ request'[d] = request[d]
    /\ pc'[c] \in PC \ {"open", "write"} /\ request'[c] \in Request
    /\ pc'[c] = "modify" => request'[c].mods # << >>
    /\ pc' \in [Client -> PC] /\ request' \in [Client -> Request]

LEMMA DoneMoves ==
    ASSUME TypeOK, NEW c \in Client, Done(c)
    PROVE  Moves(c)
<1>1. NoRequest \in Request /\ "idle" \in PC
  BY NoRequestType DEF PC
<1>2. pc' = [pc EXCEPT ![c] = "idle"] /\ request' = [request EXCEPT ![c] = NoRequest]
  BY DEF Done
<1>3. pc \in [Client -> PC] /\ request \in [Client -> Request]
  BY DEF TypeOK
<1> QED BY <1>1, <1>2, <1>3 DEF Moves

LEMMA NextModMoves ==
    ASSUME TypeOK, RequestInv, NEW c \in Client, pc[c] \in {"modify", "open", "write"}, NextMod(c)
    PROVE  Moves(c)
<1>1. CASE Len(request[c].mods) = 1
  BY <1>1, DoneMoves DEF NextMod
<1>2. CASE Len(request[c].mods) # 1
  <2>1. /\ pc' = [pc EXCEPT ![c] = "modify"]
        /\ request' = [request EXCEPT ![c] = [request[c] EXCEPT !.mods = Tail(request[c].mods)]]
    BY <1>2 DEF NextMod
  <2>2. pc \in [Client -> PC] /\ request \in [Client -> Request] /\ "modify" \in PC
    BY DEF TypeOK, PC
  <2>3. Tail(request[c].mods) \in Seq(Modification) /\ Tail(request[c].mods) # << >>
    BY <1>2, ModTypes
  <2>4. request'[c] = [request[c] EXCEPT !.mods = Tail(request[c].mods)]
    BY <2>1, <2>2
  <2>5. request'[c] \in Request /\ request'[c].mods = Tail(request[c].mods)
    BY <2>2, <2>3, <2>4 DEF Request
  <2>6. request' \in [Client -> Request] /\ pc' \in [Client -> PC]
    BY <2>1, <2>2, <2>4, <2>5
  <2>7. /\ \A d \in Client \ {c} : pc'[d] = pc[d] /\ request'[d] = request[d]
        /\ pc'[c] = "modify"
    BY <2>1, <2>2
  <2> QED BY <2>2, <2>3, <2>5, <2>6, <2>7 DEF Moves
<1> QED BY <1>1, <1>2

LEMMA StoreInit == Init => StoreInv
<1> SUFFICES ASSUME Init PROVE StoreInv
  OBVIOUS
<1>1. TypeOK
  <2>1. /\ cache \in [Path -> PS!PropertySet \cup {NotCached}]
        /\ files \in [Path -> PS!PropertySet \cup {NoFile, Torn}]
        /\ written \in [Path -> PS!PropertySet]
    BY SetTypes DEF Init
  <2>2. pc \in [Client -> PC] /\ request \in [Client -> Request]
    BY NoRequestType DEF Init, PC
  <2>3. \A c \in Client : lock = c <=> pc[c] \in {"open", "write"}
    BY StoreAssumption DEF Init
  <2>4. requests \in 0..MaxRequests /\ faults \in 0..MaxFaults
    BY StoreAssumption DEF Init
  <2> QED BY <2>1, <2>2, <2>3, <2>4 DEF Init, TypeOK
<1>2. RequestInv
  BY DEF Init, RequestInv
<1>3. WriterInv
  BY StoreAssumption DEF Init, WriterInv
<1>4. WrittenIsKept
  BY DEF Init, WrittenIsKept, FileSet, PS!NewSet
<1> QED BY <1>1, <1>2, <1>3, <1>4 DEF StoreInv

(***************************************************************************)
(* Steps that leave the store alone: parsing, get's reads, a remove at a   *)
(* path that is not cached.                                                *)
(***************************************************************************)
LEMMA QuietStep ==
    ASSUME StoreInv, NEW c \in Client, pc[c] \notin {"open", "write"},
           UNCHANGED <<cache, files, lock, faults, written>>,
           hurt \subseteq hurt', hurt' \subseteq Path, requests' \in 0..MaxRequests,
           Moves(c)
    PROVE  StoreInv'
<1> USE DEF StoreInv
<1>1. lock # c
  BY DEF TypeOK
<1>2. TypeOK'
  BY <1>1 DEF TypeOK, Moves
<1>3. RequestInv'
  BY DEF RequestInv, Moves
<1>4. \A d \in Client : lock' = d => lock = d /\ d # c /\ pc'[d] = pc[d] /\ request'[d] = request[d]
  BY <1>1 DEF Moves
<1>5. \A d \in Client : lock = d => lock' = d /\ request'[d] = request[d]
  BY <1>1 DEF Moves
<1>6. \A p \in Path : FileSet(p)' = FileSet(p)
  BY DEF FileSet
<1>7. WriterInv'
  <2> SUFFICES ASSUME NEW d \in Client, lock' = d PROVE WriterInv!(d)'
    BY DEF WriterInv
  <2>1. PathOf(d)' = PathOf(d) /\ Mod(d)' = Mod(d) /\ lock = d
    BY <1>4 DEF PathOf, Mod
  <2>2. FileSet(PathOf(d))' = FileSet(PathOf(d))
    BY <2>1 DEF FileSet
  <2> QED BY <1>4, <2>1, <2>2 DEF WriterInv, Modify
<1>8. WrittenIsKept'
  <2> SUFFICES ASSUME NEW p \in Path, p \notin hurt', ~Writing(p)'
               PROVE  FileSet(p) = written[p] /\ (cache[p] # NotCached => cache[p] = written[p])
    BY <1>6 DEF WrittenIsKept
  <2>1. ~Writing(p) /\ p \notin hurt
    BY <1>5 DEF Writing, PathOf
  <2> QED BY <2>1 DEF WrittenIsKept
<1> QED BY <1>2, <1>3, <1>7, <1>8

(***************************************************************************)
(* set and remove take the lock and change the cached set.                 *)
(***************************************************************************)
LEMMA BeginStep ==
    ASSUME StoreInv, NEW c \in Client, NEW ps \in PS!PropertySet,
           pc[c] = "modify", lock = Nobody, lock' = c,
           cache' = [cache EXCEPT ![PathOf(c)] = Modify(ps, Mod(c))],
           pc' = [pc EXCEPT ![c] = "open"],
           UNCHANGED <<files, request, requests, faults, written>>,
           hurt \subseteq hurt', hurt' \subseteq Path,
           PathOf(c) \notin hurt' => ps = written[PathOf(c)]
    PROVE  StoreInv'
<1> USE DEF StoreInv
<1>1. Mod(c) \in Modification /\ PathOf(c) \in Path
  BY ModTypes
<1>2. Modify(ps, Mod(c)) \in PS!PropertySet
  BY <1>1, SetTypes
<1>3. \A p \in Path : ~Writing(p)
  BY StoreAssumption DEF Writing
<1>4. TypeOK'
  <2>1. cache' \in [Path -> PS!PropertySet \cup {NotCached}]
    BY <1>1, <1>2 DEF TypeOK
  <2>2. pc' \in [Client -> PC] /\ pc'[c] = "open" /\ \A d \in Client : d # c => pc'[d] = pc[d]
    BY DEF TypeOK, PC
  <2>3. \A d \in Client : lock' = d <=> pc'[d] \in {"open", "write"}
    BY <2>2, StoreAssumption DEF TypeOK
  <2> QED BY <2>1, <2>2, <2>3 DEF TypeOK
<1>5. RequestInv'
  BY DEF RequestInv, TypeOK
<1>6. PathOf(c)' = PathOf(c) /\ Mod(c)' = Mod(c) /\ FileSet(PathOf(c))' = FileSet(PathOf(c))
  BY DEF PathOf, Mod, FileSet
<1>7. cache'[PathOf(c)] = Modify(ps, Mod(c)) /\ pc'[c] = "open"
  BY <1>1 DEF TypeOK
<1>8. PathOf(c) \notin hurt' => FileSet(PathOf(c)) = written[PathOf(c)]
  BY <1>1, <1>3 DEF WrittenIsKept
<1>9. WriterInv'
  <2>1. cache'[PathOf(c)] # NotCached
    BY <1>2, <1>7, SetTypes
  <2>2. WriterInv!(c)'
    BY <1>6, <1>7, <1>8, <2>1 DEF Modify
  <2> QED BY <2>2 DEF WriterInv
<1>10. WrittenIsKept'
  <2> SUFFICES ASSUME NEW p \in Path, p \notin hurt', ~Writing(p)'
               PROVE  FileSet(p)' = written[p] /\ (cache'[p] # NotCached => cache'[p] = written[p])
    BY DEF WrittenIsKept
  <2>1. p # PathOf(c)
    BY <1>6 DEF Writing
  <2>2. cache'[p] = cache[p] /\ FileSet(p)' = FileSet(p)
    BY <2>1 DEF TypeOK, FileSet
  <2> QED BY <1>3, <2>2 DEF WrittenIsKept
<1> QED BY <1>4, <1>5, <1>9, <1>10

(***************************************************************************)
(* fs::write: the file is torn until the whole set is there.               *)
(***************************************************************************)
LEMMA OpenStep ==
    ASSUME StoreInv, NEW c \in Client, OpenFile(c)
    PROVE  StoreInv'
<1> USE DEF StoreInv
<1>1. /\ pc[c] = "open" /\ files' = [files EXCEPT ![PathOf(c)] = Torn]
      /\ pc' = [pc EXCEPT ![c] = "write"]
      /\ UNCHANGED <<cache, lock, request, requests, faults, written, hurt>>
  BY DEF OpenFile
<1>2. PathOf(c) \in Path
  BY <1>1, ModTypes
<1>3. lock = c /\ pc'[c] = "write" /\ \A d \in Client : d # c => pc'[d] = pc[d]
  BY <1>1 DEF TypeOK
<1>4. TypeOK'
  BY <1>1, <1>2, <1>3 DEF TypeOK, PC
<1>5. RequestInv'
  BY <1>1, <1>3 DEF RequestInv
<1>6. \A d \in Client : PathOf(d)' = PathOf(d) /\ Mod(d)' = Mod(d)
  BY <1>1 DEF PathOf, Mod
<1>7. WriterInv'
  <2>1. files'[PathOf(c)] = Torn
    BY <1>1, <1>2 DEF TypeOK
  <2>2. /\ cache[PathOf(c)] # NotCached
        /\ PathOf(c) \notin hurt => cache[PathOf(c)] = Modify(written[PathOf(c)], Mod(c))
    BY <1>3 DEF WriterInv
  <2>3. WriterInv!(c)'
    BY <1>1, <1>3, <1>6, <2>1, <2>2 DEF Modify
  <2> QED BY <1>1, <1>3, <2>3 DEF WriterInv
<1>8. WrittenIsKept'
  <2> SUFFICES ASSUME NEW p \in Path, p \notin hurt, ~Writing(p)'
               PROVE  FileSet(p)' = written[p] /\ (cache[p] # NotCached => cache[p] = written[p])
    BY <1>1 DEF WrittenIsKept
  <2>1. p # PathOf(c) /\ ~Writing(p)
    BY <1>1, <1>3, <1>6 DEF Writing
  <2>2. FileSet(p)' = FileSet(p)
    BY <1>1, <2>1 DEF TypeOK, FileSet
  <2> QED BY <2>1, <2>2 DEF WrittenIsKept
<1> QED BY <1>4, <1>5, <1>7, <1>8

LEMMA WriteStep ==
    ASSUME StoreInv, NEW c \in Client, WriteFile(c)
    PROVE  StoreInv'
<1> USE DEF StoreInv
<1>1. /\ pc[c] = "write" /\ files' = [files EXCEPT ![PathOf(c)] = cache[PathOf(c)]]
      /\ written' = [written EXCEPT ![PathOf(c)] = Modify(written[PathOf(c)], Mod(c))]
      /\ lock' = Nobody /\ NextMod(c)
      /\ UNCHANGED <<cache, requests, faults, hurt>>
  BY DEF WriteFile
<1>2. PathOf(c) \in Path /\ Mod(c) \in Modification
  BY <1>1, ModTypes
<1>3. Moves(c)
  BY <1>1, NextModMoves
<1>4. lock = c
  BY <1>1 DEF TypeOK
<1>5. cache[PathOf(c)] \in PS!PropertySet
  BY <1>2, <1>4 DEF TypeOK, WriterInv
<1>6. PathOf(c) \notin hurt => cache[PathOf(c)] = Modify(written[PathOf(c)], Mod(c))
  BY <1>4 DEF WriterInv
<1>7. Modify(written[PathOf(c)], Mod(c)) \in PS!PropertySet
  BY <1>2, SetTypes DEF TypeOK
<1>8. TypeOK'
  <2>1. /\ files' \in [Path -> PS!PropertySet \cup {NoFile, Torn}]
        /\ written' \in [Path -> PS!PropertySet]
    BY <1>1, <1>2, <1>5, <1>7 DEF TypeOK
  <2>2. \A d \in Client : lock' = d <=> pc'[d] \in {"open", "write"}
    BY <1>1, <1>3, <1>4, StoreAssumption DEF TypeOK, Moves
  <2> QED BY <1>1, <1>3, <2>1, <2>2 DEF TypeOK, Moves
<1>9. RequestInv'
  BY <1>3 DEF RequestInv, Moves
<1>10. WriterInv'
  BY <1>1, StoreAssumption DEF WriterInv
<1>11. WrittenIsKept'
  <2> SUFFICES ASSUME NEW p \in Path, p \notin hurt
               PROVE  FileSet(p)' = written'[p] /\ (cache[p] # NotCached => cache[p] = written'[p])
    BY <1>1 DEF WrittenIsKept
  <2>1. CASE p = PathOf(c)
    <3>1. files'[p] = cache[p] /\ written'[p] = cache[p]
      BY <1>1, <1>2, <1>6, <2>1 DEF TypeOK
    <3>2. FileSet(p)' = cache[p]
      BY <3>1, <1>5, <2>1, SetTypes DEF FileSet
    <3> QED BY <3>1, <3>2
  <2>2. CASE p # PathOf(c)
    <3>1. ~Writing(p)
      BY <1>4, <2>2, StoreAssumption DEF Writing
    <3>2. FileSet(p)' = FileSet(p) /\ written'[p] = written[p]
      BY <1>1, <2>2 DEF TypeOK, FileSet
    <3> QED BY <3>1, <3>2 DEF WrittenIsKept
  <2> QED BY <2>1, <2>2
<1> QED BY <1>8, <1>9, <1>10, <1>11

(***************************************************************************)
(* A write that fails hurts its path, and only that.                       *)
(***************************************************************************)
LEMMA FailStep ==
    ASSUME StoreInv, NEW c \in Client, WriteFails(c)
    PROVE  StoreInv'
<1> USE DEF StoreInv
<1>1. /\ pc[c] \in {"open", "write"} /\ faults < MaxFaults /\ faults' = faults + 1
      /\ lock' = Nobody /\ hurt' = hurt \cup {PathOf(c)} /\ Done(c)
      /\ UNCHANGED <<cache, files, requests, written>>
  BY DEF WriteFails
<1>2. PathOf(c) \in Path
  BY <1>1, ModTypes
<1>3. Moves(c)
  BY <1>1, DoneMoves
<1>4. lock = c
  BY <1>1 DEF TypeOK
<1>5. TypeOK'
  <2>1. \A d \in Client : lock' = d <=> pc'[d] \in {"open", "write"}
    BY <1>1, <1>3, <1>4, StoreAssumption DEF TypeOK, Moves
  <2>2. faults' \in 0..MaxFaults
    BY <1>1, StoreAssumption DEF TypeOK
  <2> QED BY <1>1, <1>2, <1>3, <2>1, <2>2 DEF TypeOK, Moves
<1>6. RequestInv'
  BY <1>3 DEF RequestInv, Moves
<1>7. WriterInv'
  BY <1>1, StoreAssumption DEF WriterInv
<1>8. WrittenIsKept'
  <2> SUFFICES ASSUME NEW p \in Path, p \notin hurt'
               PROVE  FileSet(p)' = written[p] /\ (cache[p] # NotCached => cache[p] = written[p])
    BY <1>1 DEF WrittenIsKept
  <2>1. p \notin hurt /\ ~Writing(p)
    BY <1>1, <1>4 DEF Writing
  <2>2. FileSet(p)' = FileSet(p)
    BY <1>1 DEF FileSet
  <2> QED BY <2>1, <2>2 DEF WrittenIsKept
<1> QED BY <1>5, <1>6, <1>7, <1>8

(***************************************************************************)
(* get's insert: what it read is still in the file, or the path is hurt.   *)
(***************************************************************************)
LEMMA InsertStep ==
    ASSUME StoreInv, NEW c \in Client, InsertIntoCache(c)
    PROVE  StoreInv'
<1> USE DEF StoreInv
<1>1. /\ pc[c] = "insert" /\ lock = Nobody
      /\ cache' = [cache EXCEPT ![PathOf(c)] = request[c].found]
      /\ hurt' = IF files[PathOf(c)] # request[c].found THEN hurt \cup {PathOf(c)} ELSE hurt
      /\ Done(c)
      /\ UNCHANGED <<files, lock, requests, faults, written>>
  BY DEF InsertIntoCache
<1>2. PathOf(c) \in Path /\ request[c].found \in PS!PropertySet
  BY DEF TypeOK, Request, PathOf
<1>3. Moves(c)
  BY <1>1, DoneMoves
<1>4. \A p \in Path : ~Writing(p) /\ FileSet(p)' = FileSet(p)
  BY <1>1, StoreAssumption DEF Writing, FileSet
<1>5. TypeOK'
  <2>1. cache' \in [Path -> PS!PropertySet \cup {NotCached}]
    BY <1>1, <1>2 DEF TypeOK
  <2>2. \A d \in Client : lock' = d <=> pc'[d] \in {"open", "write"}
    BY <1>1, <1>3, StoreAssumption DEF TypeOK, Moves
  <2> QED BY <1>1, <1>2, <1>3, <2>1, <2>2 DEF TypeOK, Moves
<1>6. RequestInv'
  BY <1>3 DEF RequestInv, Moves
<1>7. WriterInv'
  BY <1>1, StoreAssumption DEF WriterInv
<1>8. WrittenIsKept'
  <2> SUFFICES ASSUME NEW p \in Path, p \notin hurt'
               PROVE  FileSet(p) = written[p] /\ (cache'[p] # NotCached => cache'[p] = written[p])
    BY <1>1, <1>4 DEF WrittenIsKept
  <2>1. p \notin hurt /\ FileSet(p) = written[p] /\ (cache[p] # NotCached => cache[p] = written[p])
    BY <1>1, <1>4 DEF WrittenIsKept
  <2>2. CASE p = PathOf(c)
    <3>1. files[p] = request[c].found /\ cache'[p] = request[c].found
      BY <1>1, <2>2 DEF TypeOK
    <3>2. FileSet(p) = files[p]
      BY <1>2, <3>1, SetTypes DEF FileSet
    <3> QED BY <2>1, <3>1, <3>2
  <2>3. CASE p # PathOf(c)
    BY <1>1, <2>1, <2>3 DEF TypeOK
  <2> QED BY <2>2, <2>3
<1> QED BY <1>5, <1>6, <1>7, <1>8

(***************************************************************************)
(* A restart hurts the paths whose file it leaves torn.                    *)
(***************************************************************************)
LEMMA RestartStep ==
    ASSUME StoreInv, Restart
    PROVE  StoreInv'
<1> USE DEF StoreInv
<1>1. /\ faults < MaxFaults /\ faults' = faults + 1
      /\ cache' = [p \in Path |-> NotCached] /\ lock' = Nobody
      /\ pc' = [c \in Client |-> "idle"] /\ request' = [c \in Client |-> NoRequest]
      /\ hurt' = hurt \cup {p \in Path : files[p] = Torn}
      /\ UNCHANGED <<files, requests, written>>
  BY DEF Restart
<1>2. TypeOK'
  <2>1. faults' \in 0..MaxFaults
    BY <1>1, StoreAssumption DEF TypeOK
  <2>2. pc' \in [Client -> PC] /\ request' \in [Client -> Request]
    BY <1>1, NoRequestType DEF PC
  <2> QED BY <1>1, <2>1, <2>2, StoreAssumption DEF TypeOK
<1>3. RequestInv'
  BY <1>1 DEF RequestInv
<1>4. WriterInv'
  BY <1>1, StoreAssumption DEF WriterInv
<1>5. WrittenIsKept'
  <2> SUFFICES ASSUME NEW p \in Path, p \notin hurt' PROVE FileSet(p) = written[p]
    BY <1>1 DEF WrittenIsKept, FileSet
  <2>1. p \notin hurt /\ files[p] # Torn
    BY <1>1
  <2>2. CASE Writing(p)
    <3>1. PICK c \in Client : lock = c /\ PathOf(c) = p
      BY <2>2 DEF Writing
    <3>2. pc[c] = "open"
      BY <2>1, <3>1 DEF TypeOK, WriterInv
    <3> QED BY <2>1, <3>1, <3>2 DEF WriterInv
  <2>3. CASE ~Writing(p)
    BY <2>1, <2>3 DEF WrittenIsKept
  <2> QED BY <2>2, <2>3
<1> QED BY <1>2, <1>3, <1>4, <1>5

(***************************************************************************)
(* The steps that leave the store alone.                                   *)
(***************************************************************************)
LEMMA RequestStep ==
    ASSUME StoreInv, NEW c \in Client,
           \/ \E p \in Path, body \in Bodies : Proppatch(c, p, body)
           \/ \E body \in Bodies : ProppatchIdle(c, body)
           \/ \E p \in Path : StartGet(c, p)
           \/ ReadFile(c)
    PROVE  StoreInv'
<1> USE DEF StoreInv
<1>t. /\ pc \in [Client -> PC] /\ request \in [Client -> Request] /\ request[c] \in Request
      /\ requests \in 0..MaxRequests /\ hurt \subseteq Path
      /\ requests < MaxRequests => requests + 1 \in 0..MaxRequests
  BY StoreAssumption DEF TypeOK
<1>1. ASSUME NEW p \in Path, NEW body \in Bodies, Proppatch(c, p, body) PROVE StoreInv'
  <2>1. /\ pc[c] = "idle" /\ requests < MaxRequests /\ requests' = requests + 1
        /\ request' = [request EXCEPT ![c] = [NoRequest EXCEPT !.path = p, !.mods = FromXml(body)]]
        /\ pc' = [pc EXCEPT ![c] = "modify"] /\ FromXml(body) # << >>
        /\ UNCHANGED <<cache, files, lock, faults, written, hurt>>
    BY <1>1 DEF Proppatch
  <2>2. FromXml(body) \in Seq(Modification)
    BY BodiesAssumption
  <2> DEFINE new == [NoRequest EXCEPT !.path = p, !.mods = FromXml(body)]
  <2>3. new \in Request /\ new.mods = FromXml(body)
    BY <2>2, NoRequestType DEF Request
  <2> HIDE DEF new
  <2>4. Moves(c)
    BY <1>t, <2>1, <2>3 DEF Moves, PC, new
  <2> QED BY <1>t, <2>1, <2>4, QuietStep
<1>2. ASSUME NEW body \in Bodies, ProppatchIdle(c, body) PROVE StoreInv'
  <2>1. /\ pc[c] = "idle" /\ requests < MaxRequests /\ requests' = requests + 1
        /\ UNCHANGED <<cache, files, lock, pc, request, faults, written, hurt>>
    BY <1>2 DEF ProppatchIdle
  <2>2. Moves(c)
    BY <1>t, <2>1 DEF Moves, PC
  <2> QED BY <1>t, <2>1, <2>2, QuietStep
<1>3. ASSUME NEW p \in Path, StartGet(c, p) PROVE StoreInv'
  <2>1. /\ pc[c] = "idle" /\ requests < MaxRequests /\ requests' = requests + 1
        /\ request' = [request EXCEPT ![c] = [request[c] EXCEPT !.path = p]]
        /\ pc' = [pc EXCEPT ![c] = "read"]
        /\ UNCHANGED <<cache, files, lock, faults, written, hurt>>
    BY <1>3 DEF StartGet
  <2> DEFINE new == [request[c] EXCEPT !.path = p]
  <2>2. new \in Request
    BY <1>t DEF Request
  <2> HIDE DEF new
  <2>3. Moves(c)
    BY <1>t, <2>1, <2>2 DEF Moves, PC, new
  <2> QED BY <1>t, <2>1, <2>3, QuietStep
<1>4. CASE ReadFile(c)
  <2>1. pc[c] = "read" /\ UNCHANGED <<cache, files, lock, requests, faults, written, hurt>>
    BY <1>4 DEF ReadFile
  <2>2. Moves(c)
    <3>1. CASE files[PathOf(c)] \in {NoFile, Torn}
      BY <1>4, <3>1, DoneMoves DEF ReadFile
    <3>2. CASE files[PathOf(c)] \notin {NoFile, Torn}
      <4> DEFINE new == [request[c] EXCEPT !.found = files[PathOf(c)]]
      <4>1. request' = [request EXCEPT ![c] = new] /\ pc' = [pc EXCEPT ![c] = "insert"]
        BY <1>4, <3>2 DEF ReadFile
      <4>2. files[PathOf(c)] \in PS!PropertySet
        BY <1>t, <3>2 DEF TypeOK, Request, PathOf
      <4>3. new \in Request
        BY <1>t, <4>2 DEF Request
      <4> HIDE DEF new
      <4> QED BY <1>t, <4>1, <4>3 DEF Moves, PC
    <3> QED BY <3>1, <3>2
  <2> QED BY <1>t, <2>1, <2>2, QuietStep
<1> QED BY <1>1, <1>2, <1>3, <1>4

(***************************************************************************)
(* The set a modification starts from.                                     *)
(***************************************************************************)
LEMMA BeginIsBegin ==
    ASSUME StoreInv, NEW c \in Client, BeginSet(c) \/ BeginRemove(c)
    PROVE  StoreInv'
<1> USE DEF StoreInv
<1>1. pc[c] = "modify" /\ lock = Nobody
  BY DEF BeginSet, BeginRemove
<1>2. PathOf(c) \in Path /\ hurt \subseteq Path /\ Mod(c) \in Modification
  BY <1>1, ModTypes DEF TypeOK
<1>3. PathOf(c) \notin hurt =>
          /\ FileSet(PathOf(c)) = written[PathOf(c)]
          /\ cache[PathOf(c)] # NotCached => cache[PathOf(c)] = written[PathOf(c)]
  BY <1>1, <1>2, StoreAssumption DEF WrittenIsKept, Writing
<1>4. CASE BeginSet(c)
  <2> DEFINE ps == IF cache[PathOf(c)] = NotCached THEN PS!NewSet ELSE cache[PathOf(c)]
  <2>1. /\ lock' = c /\ cache' = [cache EXCEPT ![PathOf(c)] = Modify(ps, Mod(c))]
        /\ pc' = [pc EXCEPT ![c] = "open"]
        /\ UNCHANGED <<files, request, requests, faults, written>>
    BY <1>4 DEF BeginSet
  <2>2. hurt' = IF cache[PathOf(c)] = NotCached /\ FileSet(PathOf(c)) # PS!NewSet
                THEN hurt \cup {PathOf(c)} ELSE hurt
    BY <1>4 DEF BeginSet
  <2>3. ps \in PS!PropertySet
    BY <1>2, SetTypes DEF TypeOK
  <2>4. PathOf(c) \notin hurt' => ps = written[PathOf(c)]
    BY <1>3, <2>2
  <2>5. hurt \subseteq hurt' /\ hurt' \subseteq Path
    BY <1>2, <2>2
  <2> HIDE DEF ps
  <2> QED BY <1>1, <2>1, <2>3, <2>4, <2>5, BeginStep
<1>5. CASE BeginRemove(c) /\ cache[PathOf(c)] # NotCached
  <2>1. /\ lock' = c /\ cache' = [cache EXCEPT ![PathOf(c)] = Modify(cache[PathOf(c)], Mod(c))]
        /\ pc' = [pc EXCEPT ![c] = "open"] /\ hurt' = hurt
        /\ UNCHANGED <<files, request, requests, faults, written>>
    BY <1>5 DEF BeginRemove
  <2>2. cache[PathOf(c)] \in PS!PropertySet
    BY <1>2, <1>5 DEF TypeOK
  <2> QED BY <1>1, <1>2, <1>3, <1>5, <2>1, <2>2, BeginStep
<1>6. CASE BeginRemove(c) /\ cache[PathOf(c)] = NotCached
  <2>1. /\ NextMod(c) /\ hurt \subseteq hurt' /\ hurt' \subseteq Path
        /\ UNCHANGED <<cache, files, lock, requests, faults, written>>
    BY <1>2, <1>6 DEF BeginRemove
  <2>2. Moves(c)
    BY <1>1, <2>1, NextModMoves
  <2>3. requests' \in 0..MaxRequests
    BY <2>1 DEF TypeOK
  <2> QED BY <1>1, <2>1, <2>2, <2>3, QuietStep
<1> QED BY <1>4, <1>5, <1>6

LEMMA StoreStep == StoreInv /\ [Next]_vars => StoreInv'
<1> SUFFICES ASSUME StoreInv, [Next]_vars PROVE StoreInv'
  OBVIOUS
<1>1. CASE UNCHANGED vars
  <2>1. UNCHANGED <<cache, files, lock, pc, request, requests, faults, written, hurt>>
    BY <1>1 DEF vars
  <2>2. TypeOK' /\ RequestInv'
    BY <2>1 DEF StoreInv, TypeOK, RequestInv
  <2>3. WriterInv'
    BY <2>1 DEF StoreInv, WriterInv, PathOf, Mod, Modify, FileSet
  <2>4. WrittenIsKept'
    BY <2>1 DEF StoreInv, WrittenIsKept, Writing, PathOf, FileSet
  <2> QED BY <2>2, <2>3, <2>4 DEF StoreInv
<1>2. CASE Next
  BY <1>2, RequestStep, BeginIsBegin, OpenStep, WriteStep, FailStep, InsertStep, RestartStep DEF Next
<1> QED BY <1>1, <1>2

(***************************************************************************)
(* What completed PROPPATCH modifications made of a path is what its file  *)
(* holds and what is cached, whatever requests interleave and however      *)
(* often the server restarts, except on paths that met a hazard of set,    *)
(* remove or get.                                                          *)
(***************************************************************************)
THEOREM WritesAreKept == Spec => []WrittenIsKept
<1>1. StoreInv => WrittenIsKept
  BY DEF StoreInv
<1> QED BY <1>1, StoreInit, StoreStep, PTL DEF Spec

-----------------------------------------------------------------------------
(***************************************************************************)
(* While no write is in progress and no path is hurt, a step that changes  *)
(* the contents is the step of the in-memory store.                        *)
(***************************************************************************)
LEMMA BeginRefines ==
    ASSUME StoreInv, NEW c \in Client, NEW ps,
           pc[c] = "modify",
           cache' = [cache EXCEPT ![PathOf(c)] = Modify(ps, Mod(c))],
           files' = files, ps \in PS!PropertySet, ps = Contents[PathOf(c)]
    PROVE  PS!Next
<1>1. Mod(c) \in Modification /\ PathOf(c) \in Path
  BY ModTypes DEF StoreInv
<1>2. cache \in [Path -> PS!PropertySet \cup {NotCached}]
  BY DEF StoreInv, TypeOK
<1>3. Modify(ps, Mod(c)) # NotCached
  BY <1>1, SetTypes
<1>4. Contents' = [Contents EXCEPT ![PathOf(c)] = Modify(Contents[PathOf(c)], Mod(c))]
  <2>1. cache'[PathOf(c)] = Modify(ps, Mod(c)) /\ \A p \in Path : p # PathOf(c) => cache'[p] = cache[p]
    BY <1>1, <1>2
  <2>2. \A p \in Path : FileSet(p)' = FileSet(p)
    BY DEF FileSet
  <2>3. \A p \in Path : Contents'[p] = IF p = PathOf(c) THEN Modify(ps, Mod(c)) ELSE Contents[p]
    BY <2>1, <2>2, <1>3 DEF Contents
  <2>4. Contents' = [p \in Path |-> Contents'[p]] /\ Contents = [p \in Path |-> Contents[p]]
    BY DEF Contents
  <2> HIDE DEF Contents
  <2> QED BY <2>3, <2>4, <1>1
<1>5. Mod(c).name \in Name /\ Mod(c).value \in Value
  BY <1>1 DEF Modification
<1>6. CASE Mod(c).op = "set"
  <2>1. PS!Set(PathOf(c), Mod(c).name, Mod(c).value)
    BY <1>4, <1>6 DEF PS!Set, Modify
  <2> QED BY <1>1, <1>5, <2>1 DEF PS!Next
<1>7. CASE Mod(c).op # "set"
  <2>1. PS!Remove(PathOf(c), Mod(c).name)
    BY <1>4, <1>7 DEF PS!Remove, Modify
  <2> QED BY <1>1, <1>5, <2>1 DEF PS!Next
<1> QED BY <1>6, <1>7

(***************************************************************************)
(* Away from the hazards, contents and files agree when nobody writes.     *)
(***************************************************************************)
LEMMA ContentsAreFiles ==
    ASSUME StoreInv, hurt = {}, ~\E p \in Path : Writing(p), NEW p \in Path
    PROVE  Contents[p] = FileSet(p)
BY DEF StoreInv, WrittenIsKept, Contents

LEMMA StepRefines ==
    ASSUME StoreInv, Next, hurt' = {}, ~\E p \in Path : Writing(p)
    PROVE  PS!Next \/ UNCHANGED Contents
<1>1. ASSUME NEW c \in Client,
             \/ \E p \in Path, body \in Bodies : Proppatch(c, p, body)
             \/ \E body \in Bodies : ProppatchIdle(c, body)
             \/ \E p \in Path : StartGet(c, p)
             \/ ReadFile(c)
      PROVE  UNCHANGED Contents
  <2>1. cache' = cache /\ files' = files
    BY <1>1 DEF Proppatch, ProppatchIdle, StartGet, ReadFile
  <2> QED BY <2>1 DEF Contents, FileSet
<1>2. ASSUME NEW c \in Client, OpenFile(c) \/ WriteFile(c) \/ WriteFails(c)
      PROVE  FALSE
  <2>1. pc[c] \in {"open", "write"}
    BY <1>2 DEF OpenFile, WriteFile, WriteFails
  <2>2. lock = c /\ PathOf(c) \in Path
    BY <2>1, ModTypes DEF StoreInv, TypeOK
  <2> QED BY <2>2 DEF Writing
<1>3. ASSUME NEW c \in Client, BeginSet(c) PROVE PS!Next
  <2> DEFINE ps == IF cache[PathOf(c)] = NotCached THEN PS!NewSet ELSE cache[PathOf(c)]
  <2>1. /\ pc[c] = "modify" /\ lock = Nobody /\ files' = files
        /\ cache' = [cache EXCEPT ![PathOf(c)] = Modify(ps, Mod(c))]
    BY <1>3 DEF BeginSet
  <2>2. hurt' = IF cache[PathOf(c)] = NotCached /\ FileSet(PathOf(c)) # PS!NewSet
                THEN hurt \cup {PathOf(c)} ELSE hurt
    BY <1>3 DEF BeginSet
  <2>3. hurt = {} /\ (cache[PathOf(c)] = NotCached => FileSet(PathOf(c)) = PS!NewSet)
    BY <2>2
  <2>4. PathOf(c) \in Path
    BY <2>1, ModTypes DEF StoreInv
  <2>5. ps \in PS!PropertySet
    BY <2>4, SetTypes DEF StoreInv, TypeOK
  <2>6. ps = Contents[PathOf(c)]
    BY <2>3, <2>4 DEF Contents
  <2> HIDE DEF ps
  <2> QED BY <2>1, <2>5, <2>6, BeginRefines
<1>4. ASSUME NEW c \in Client, BeginRemove(c) PROVE PS!Next \/ UNCHANGED Contents
  <2>0. pc[c] = "modify" /\ lock = Nobody /\ files' = files
    BY <1>4 DEF BeginRemove
  <2>1. PathOf(c) \in Path
    BY <2>0, ModTypes DEF StoreInv
  <2>2. CASE cache[PathOf(c)] = NotCached
    <3>1. cache' = cache
      BY <1>4, <2>2 DEF BeginRemove
    <3> QED BY <2>0, <3>1 DEF Contents, FileSet
  <2>3. CASE cache[PathOf(c)] # NotCached
    <3>1. cache' = [cache EXCEPT ![PathOf(c)] = Modify(cache[PathOf(c)], Mod(c))] /\ hurt = {}
      BY <1>4, <2>3 DEF BeginRemove
    <3>2. cache[PathOf(c)] \in PS!PropertySet /\ cache[PathOf(c)] = Contents[PathOf(c)]
      BY <2>1, <2>3 DEF StoreInv, TypeOK, Contents
    <3> QED BY <2>0, <3>1, <3>2, BeginRefines
  <2> QED BY <2>2, <2>3
<1>5. ASSUME NEW c \in Client, InsertIntoCache(c) PROVE UNCHANGED Contents
  <2>1. /\ cache' = [cache EXCEPT ![PathOf(c)] = request[c].found] /\ files' = files
        /\ hurt' = IF files[PathOf(c)] # request[c].found THEN hurt \cup {PathOf(c)} ELSE hurt
    BY <1>5 DEF InsertIntoCache
  <2>2. hurt = {} /\ files[PathOf(c)] = request[c].found
    BY <2>1
  <2>3. PathOf(c) \in Path /\ request[c].found \in PS!PropertySet
    BY DEF StoreInv, TypeOK, Request, PathOf
  <2>4. FileSet(PathOf(c)) = request[c].found
    BY <2>2, <2>3, SetTypes DEF FileSet
  <2>5. \A p \in Path : Contents[p] = FileSet(p) /\ FileSet(p)' = FileSet(p)
    BY <2>1, <2>2, ContentsAreFiles DEF FileSet
  <2>6. \A p \in Path : cache'[p] = IF p = PathOf(c) THEN request[c].found ELSE cache[p]
    BY <2>1, <2>3 DEF StoreInv, TypeOK
  <2>7. \A p \in Path : Contents'[p] = Contents[p]
    BY <2>3, <2>4, <2>5, <2>6 DEF Contents
  <2> QED BY <2>7 DEF Contents
<1>6. ASSUME Restart PROVE UNCHANGED Contents
  <2>1. cache' = [p \in Path |-> NotCached] /\ files' = files /\ hurt = {}
    BY <1>6 DEF Restart
  <2>2. \A p \in Path : Contents[p] = FileSet(p) /\ FileSet(p)' = FileSet(p)
    BY <2>1, ContentsAreFiles DEF FileSet
  <2>3. \A p \in Path : Contents'[p] = Contents[p]
    BY <2>1, <2>2 DEF Contents
  <2> QED BY <2>3 DEF Contents
<1> QED BY <1>1, <1>2, <1>3, <1>4, <1>5, <1>6 DEF Next

(***************************************************************************)
(* The store of sqlite_repository.rs implements the in-memory store of     *)
(* properties.rs as long as no path meets a hazard: it starts empty, and   *)
(* every step outside a write sets or removes one property or changes      *)
(* nothing, a restart and get's unlocked read included.                    *)
(***************************************************************************)
THEOREM StoreRefined == Spec => ImplementsStore
<1>1. Init => PS!Init
  BY DEF Init, PS!Init, PS!NewSet, Contents, FileSet
<1>2. StoreInv /\ [Next]_vars =>
        [(hurt' = {} /\ ~\E p \in Path : Writing(p)) => PS!Next]_Contents
  <2> SUFFICES ASSUME StoreInv, [Next]_vars
               PROVE  [(hurt' = {} /\ ~\E p \in Path : Writing(p)) => PS!Next]_Contents
    OBVIOUS
  <2>1. CASE UNCHANGED vars
    BY <2>1 DEF vars, Contents, FileSet
  <2>2. CASE Next
    BY <2>2, StepRefines
  <2> QED BY <2>1, <2>2
<1> QED BY <1>1, <1>2, StoreInit, StoreStep, PTL DEF Spec, ImplementsStore
=============================================================================
