-------------------------------- MODULE Authz --------------------------------
(***************************************************************************)
(* SvnAuthzProvider: an authz file is read line by line into sections of   *)
(* rules, and a request is decided by the rules of its path's section, of  *)
(* the sections of the paths above it, and of the root.                    *)
(*                                                                         *)
(* Every state is a provider for the lines read so far, so the properties  *)
(* speak about every file up to MaxLines lines.  Comments and blank lines  *)
(* are skipped before anything else and left out.                          *)
(***************************************************************************)
EXTENDS Naturals, Sequences, SequencesExt, FiniteSetsExt

CONSTANTS
    User, Anonymous,    \* names users may have; no user name
    Group,
    Path, Root, NoPath, \* request paths, also names of sections; "/"; ""
    Wild,               \* the sections whose name ends in "/*"
    Ancestors,          \* Ancestors[p]: p cut at its last '/', repeatedly, "" read as "/"
    DefaultAccess,      \* with_default_access
    MaxLines            \* bound: lines of the file

Level == {"none", "read", "write"}

ASSUME AuthzAssumption ==
    /\ Root \in Path /\ NoPath \in Path /\ Wild \subseteq Path
    /\ Anonymous \notin User
    /\ Ancestors \in [Path -> Seq(Path)]
    /\ DefaultAccess \in Level
    /\ MaxLines \in Nat

VARIABLES
    section,    \* current_section
    groups,     \* group -> its users; no users: not defined
    rules,      \* section -> its rules, in the order of the file
    failed,     \* parse has returned an error
    lines       \* history variable: the lines read

vars == <<section, groups, rules, failed, lines>>

\* who a rule is for: a user, a group, or * which stands for no user name
Star == [star |-> TRUE]
Who == [user : User] \cup [group : Group] \cup {Star}
Rule == [path : Path, who : Who, level : Level]
NoSection == [none |-> TRUE]
GroupsSection == [groups |-> TRUE]
PathSection(p) == [path |-> p]

TypeOK ==
    /\ section \in {NoSection, GroupsSection} \cup {PathSection(p) : p \in Path}
    /\ groups \in [Group -> SUBSET User]
    /\ rules \in [Path -> Seq(Rule)]
    /\ failed \in BOOLEAN
    /\ Len(lines) <= MaxLines

Init ==
    /\ section = NoSection
    /\ groups = [g \in Group |-> {}]
    /\ rules = [p \in Path |-> << >>]
    /\ failed = FALSE
    /\ lines = << >>

More(line) ==
    /\ ~failed /\ Len(lines) < MaxLines
    /\ lines' = Append(lines, line)

Fails == failed' = TRUE /\ UNCHANGED <<section, groups, rules>>

-----------------------------------------------------------------------------
\* a line [name]
ReadSection(s) ==
    /\ More([section |-> s])
    /\ section' = s
    /\ UNCHANGED <<groups, rules, failed>>

\* a line before the first section is ignored, whatever it is
ReadOutside ==
    /\ section = NoSection
    /\ More([ignored |-> TRUE])
    /\ UNCHANGED <<section, groups, rules, failed>>

\* a line without '=', an unknown level or a group without a name or users
ReadInvalid ==
    /\ section # NoSection
    /\ More([invalid |-> TRUE])
    /\ Fails

\* parse_group: a later definition replaces an earlier one
ReadGroup(g, users) ==
    /\ section = GroupsSection /\ users # {}
    /\ More([g |-> g, users |-> users])
    /\ groups' = [groups EXCEPT ![g] = users]
    /\ UNCHANGED <<section, rules, failed>>

Undefined(who) == "group" \in DOMAIN who /\ groups[who.group] = {}

\* Mutant: the map's entry is replaced, not extended.
AddRuleReplacing(rule) == rules' = [rules EXCEPT ![rule.path] = << rule >>]

AddRule(rule) == rules' = [rules EXCEPT ![rule.path] = Append(@, rule)]

\* parse_access_rule: a group must have been defined above
ReadRule(who, level) ==
    /\ section \notin {NoSection, GroupsSection}
    /\ More([who |-> who, level |-> level])
    /\ IF Undefined(who) THEN Fails
       ELSE /\ AddRule([path |-> section.path, who |-> who, level |-> level])
            /\ UNCHANGED <<section, groups, failed>>

Next ==
    \/ \E s \in {GroupsSection} \cup {PathSection(p) : p \in Path} : ReadSection(s)
    \/ ReadOutside
    \/ ReadInvalid
    \/ \E g \in Group, users \in SUBSET User : ReadGroup(g, users)
    \/ \E who \in Who, level \in Level : ReadRule(who, level)

Spec == Init /\ [][Next]_vars

-----------------------------------------------------------------------------
(***************************************************************************)
(* get_applicable_rules: the path's own rules, those of each path above    *)
(* it, and the root's once more.                                           *)
(***************************************************************************)
ApplicableRules(p) ==
    rules[p]
    \o FlattenSeq([i \in DOMAIN Ancestors[p] |-> rules[Ancestors[p][i]]])
    \o (IF p \in {NoPath, Root} THEN << >> ELSE rules[Root])

\* a pattern is only a name here: it covers paths that spell the "*" out
Specificity(rule, p) ==
    IF rule.path = p THEN 1000 ELSE IF rule.path \in Wild \cup {Root} THEN 500 ELSE 0


\* the stable sort, highest specificity first
SortedRules(p) ==
    LET applicable == ApplicableRules(p)
        At(n) == SelectSeq(applicable, LAMBDA r : Specificity(r, p) = n)
    IN At(1000) \o At(500) \o At(0)

Matches(who, u) ==
    CASE who = Star -> u = Anonymous
      [] "user" \in DOMAIN who -> u = who.user
      [] "group" \in DOMAIN who -> u \in groups[who.group]

\* find_access_level: the first rule of the sorted list that is for u
FindAccessLevel(u, p) ==
    LET mine == SelectSeq(SortedRules(p), LAMBDA r : Matches(r.who, u))
    IN IF mine = << >> THEN DefaultAccess ELSE Head(mine).level

\* check_access
CheckAccess(u, p, required) ==
    LET granted == FindAccessLevel(u, p) IN
    granted = "write" \/ (granted = "read" /\ required = "read")

-----------------------------------------------------------------------------
(***************************************************************************)
(* What the lines of the file say, without tables or sorting.  A line      *)
(* speaks for u at p if it is a rule of a section that covers p, and names *)
(* u, a group whose last definition lists u, or * and u has no name.       *)
(***************************************************************************)
SectionOf(i) ==
    LET above == {j \in 1..i - 1 : "section" \in DOMAIN lines[j]}
    IN IF above = {} THEN NoSection ELSE lines[Max(above)].section

Members(g) ==
    LET defs == {i \in DOMAIN lines : "g" \in DOMAIN lines[i] /\ lines[i].g = g}
    IN IF defs = {} THEN {} ELSE lines[Max(defs)].users

Names(who, u) ==
    \/ who = Star /\ u = Anonymous
    \/ who = [user |-> u]
    \/ \E g \in Group : who = [group |-> g] /\ u \in Members(g)

Covers(s, p) ==
    \/ s = PathSection(p)
    \/ \E i \in DOMAIN Ancestors[p] : s = PathSection(Ancestors[p][i])
    \/ s = PathSection(Root) /\ p # NoPath

SpeaksFor(i, u, p) == "who" \in DOMAIN lines[i] /\ Names(lines[i].who, u) /\ Covers(SectionOf(i), p)

\* requests of u at p are answered as a rule of this level says
Decides(level, u, p) ==
    /\ CheckAccess(u, p, "read") <=> level \in {"read", "write"}
    /\ CheckAccess(u, p, "write") <=> level = "write"

Requests == (User \cup {Anonymous}) \X Path

\* a line for * of a section that covers p
StarCovers(i, p) == "who" \in DOMAIN lines[i] /\ lines[i].who = Star /\ Covers(SectionOf(i), p)


(***************************************************************************)
(* A line added to a file changes only what it is about: a new rule only   *)
(* requests at paths of its section by those it names or stands for, a     *)
(* group only the requests of users who join or leave it; a new section or *)
(* an ignored line changes nothing.  So what was granted or denied to one  *)
(* user is not lost when another gets a rule (parse_access_rule's table).  *)
(***************************************************************************)
LocalEffect ==
    [][~failed' =>
       \A u \in User \cup {Anonymous}, p \in Path :
           \/ FindAccessLevel(u, p)' = FindAccessLevel(u, p)
           \/ SpeaksFor(Len(lines), u, p)' \/ StarCovers(Len(lines), p)'
           \/ \E g \in Group : (u \in groups[g]) # (u \in groups'[g])]_vars

(***************************************************************************)
(* authz.rs:310 says that find_access_level returns "the most specific     *)
(* access level for a user at a path", and line 317 "more specific paths   *)
(* taking precedence": a rule for the user in the nearest section above    *)
(* decides before one of the root.                                         *)
(***************************************************************************)
Depth(s, p) ==
    IF s = PathSection(p) THEN 0 ELSE CHOOSE i \in DOMAIN Ancestors[p] : s = PathSection(Ancestors[p][i])
MostSpecificWins ==
    ~failed =>
        \A r \in Requests :
            LET said == {i \in DOMAIN lines : SpeaksFor(i, r[1], r[2])}
            IN said # {} =>
                 \E i \in said : /\ \A j \in said : Depth(SectionOf(i), r[2]) <= Depth(SectionOf(j), r[2])
                                 /\ Decides(lines[i].level, r[1], r[2])
=============================================================================
