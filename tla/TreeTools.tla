----------------------------- MODULE TreeTools ------------------------------
(***************************************************************************)
(* Three tools that walk a tree with the pool and descend():               *)
(*   parallel_cpr     copies trees below a destination directory,          *)
(*   gufi_index2dir   rebuilds a source tree from an index,                *)
(*   parallel_find    prints the entries of trees.                         *)
(* Directories are work items that enqueue their subdirectories; files are *)
(* items of their own in parallel_cpr only.  The pool is the one QPTPool   *)
(* specifies: items are taken in any order, each exactly once.             *)
(*                                                                         *)
(* Paths are sequences of names.  The source tree does not change during a *)
(* run; the destination tree is a variable.                                *)
(***************************************************************************)
EXTENDS Integers, Sequences, FiniteSets, Bags, FiniteSetsExt, SequencesExt, BagsExt

CONSTANTS
    Workers,        \* threads of the pool
    Scenes,         \* the trees and command lines that are tried
    Capacity        \* lines that fit into the output buffer of a thread

(***************************************************************************)
(* A scene has: tool; src, the source tree, with kind ("d", "f", "l" or    *)
(* "o" for other types), ok (the entry can be opened), mode, own, data,    *)
(* xattr and time of every path, and for an index also db (db.db can be    *)
(* opened) and perm, the permissions of the index directory itself; dst,   *)
(* what the destination holds before, and at, where it is; args; root,     *)
(* whether the process may ignore permissions; umask; xattrs, whether they *)
(* are processed; full, the files whose copy fails half way; start,        *)
(* whether the pool starts; and for parallel_find min and max level, types *)
(* and format.                                                             *)
(***************************************************************************)
VARIABLES
    sc,             \* the scene
    mpc,            \* where main is
    arg,            \* next argument
    twork,          \* bag of the work items that wait in the pool
    tthr,           \* what each thread does
    dst,            \* the destination tree
    failed,         \* items whose function returned non-zero
    rc,             \* rc of main
    obuf,           \* output buffer of each thread: lines
    printed         \* lines on stdout

tvars == <<sc, mpc, arg, twork, tthr, dst, failed, rc, obuf, printed>>

Free == [step |-> "free"]
One(x) == SetToBag({x})

Below(p) == {q \in DOMAIN sc.src: Len(q) = Len(p) + 1 /\ IsPrefix(p, q)}
Is(p, kind) == p \in DOMAIN sc.src /\ sc.src[p].kind = kind

(***************************************************************************)
(* The file system, as a process with or without privileges sees it.       *)
(***************************************************************************)
Entry(kind, mode) == [kind |-> kind, mode |-> mode, own |-> "me", data |-> "",
                      xattr |-> {}, time |-> "now"]
IsDir(fs, p) == p \in DOMAIN fs /\ fs[p].kind = "d"
MayWrite(fs, p) == sc.root \/ "w" \in fs[p].mode
MayAdd(fs, p) ==
    /\ p \notin DOMAIN fs
    /\ p = <<>> \/ (IsDir(fs, Front(p)) /\ MayWrite(fs, Front(p)))
Touched(fs, p) == IF p = <<>> THEN fs ELSE [fs EXCEPT ![Front(p)].time = "now"]
Added(fs, p, entry) == Touched(fs, p) @@ (p :> entry)
MayOwn(fs, p, own) == sc.root \/ fs[p].own = own
SetXattrs(fs, p, xattr) ==
    IF sc.xattrs /\ MayWrite(fs, p) THEN [fs EXCEPT ![p].xattr = @ \cup xattr] ELSE fs
XattrFails(fs, p, xattr) == sc.xattrs /\ xattr /= {} /\ ~MayWrite(fs, p)

\* open(O_CREAT | O_TRUNC | O_WRONLY)
MayOpen(fs, p) ==
    \/ MayAdd(fs, p)
    \/ p \in DOMAIN fs /\ fs[p].kind = "f" /\ MayWrite(fs, p)
Opened(fs, p, mode) ==
    IF p \in DOMAIN fs THEN [fs EXCEPT ![p].data = ""]
    ELSE Added(fs, p, Entry("f", mode \ sc.umask))
\* symlink(): a name that exists stays as it is
Linked(fs, p, target) ==
    IF MayAdd(fs, p) THEN Added(fs, p, [Entry("l", {}) EXCEPT !.data = target]) ELSE fs

\* dupdir: the directory and the ones above it are created if necessary
DupdirFails(p) == \E k \in 0..Len(p):
    LET q == SubSeq(p, 1, k) IN q \in DOMAIN dst /\ dst[q].kind /= "d"
Dupdir(p, mode) ==
    LET missing == {SubSeq(p, 1, k): k \in 0..Len(p)} \ DOMAIN dst
    IN  dst @@ [q \in missing |-> Entry("d", mode \ sc.umask)]

(***************************************************************************)
(* descend(): the subdirectories that go back to the pool, and the files   *)
(* and links that are handled in place.                                    *)
(***************************************************************************)
Item(f, top, p, level) == [f |-> f, top |-> top, path |-> p, level |-> level]
BagOf(items) == [x \in items |-> 1]
ChildDirs(it) ==
    IF it.level + 1 > sc.max THEN {}
    ELSE {Item(it.f, it.top, q, it.level + 1): q \in {c \in Below(it.path): Is(c, "d")}}
Nondirs(it) ==
    IF it.level > sc.max \/ it.level < sc.min THEN {}
    ELSE {c \in Below(it.path): Is(c, "f") \/ Is(c, "l")}

\* the part of the path behind the parent of the argument it was reached from
create_dst_name(top, p) == SubSeq(p, Len(top), Len(p))

Done(t, code) ==
    /\ tthr' = [tthr EXCEPT ![t] = Free]
    /\ failed' = failed + code

Goes(t, step) ==
    /\ tthr' = [tthr EXCEPT ![t].step = step]
    /\ UNCHANGED failed

TInit ==
    /\ sc \in Scenes
    /\ mpc = "setup"
    /\ arg = 1
    /\ twork = EmptyBag
    /\ tthr = [t \in Workers |-> Free]
    /\ dst = sc.dst
    /\ failed = 0
    /\ rc = 0
    /\ obuf = [t \in Workers |-> <<>>]
    /\ printed = <<>>

-----------------------------------------------------------------------------
(***************************************************************************)
(* main                                                                    *)
(***************************************************************************)
GiveUp ==
    /\ mpc' = "failed"
    /\ rc' = 1
    /\ UNCHANGED <<sc, arg, twork, tthr, failed, obuf, printed>>

StartPool ==
    IF sc.start THEN mpc' = "args" /\ UNCHANGED rc ELSE mpc' = "failed" /\ rc' = 1

setup ==
    /\ mpc = "setup" /\ sc.tool = "cpr"
    /\ IF DupdirFails(<<>>) THEN GiveUp /\ UNCHANGED dst
       ELSE /\ dst' = Dupdir(<<>>, {"r", "w"})
            /\ StartPool
            /\ UNCHANGED <<sc, arg, twork, tthr, failed, obuf, printed>>

validate_inputs ==
    /\ mpc = "setup" /\ sc.tool = "index2dir"
    /\ LET top == sc.args[1]
           image == create_dst_name(top, top)
       IN  IF ~Is(top, "d") \/ DupdirFails(image) THEN GiveUp /\ UNCHANGED dst
           ELSE /\ dst' = Dupdir(image, sc.src[top].perm)
                /\ StartPool
                /\ UNCHANGED <<sc, arg, twork, tthr, failed, obuf, printed>>

find_setup ==
    /\ mpc = "setup" /\ sc.tool = "find"
    /\ StartPool
    /\ UNCHANGED <<sc, arg, twork, tthr, dst, failed, obuf, printed>>

\* Mutant: the directories above the destination are not looked at.
check_same(lhs, rhs) == lhs = rhs

\* lhs is rhs or a directory above it, the root of the file system excepted
check_contains(lhs, rhs) == lhs = rhs \/ (lhs /= <<>> /\ IsPrefix(lhs, rhs))

NextArg ==
    /\ mpc = "args" /\ arg <= Len(sc.args)
    /\ arg' = arg + 1
    /\ UNCHANGED <<sc, mpc, tthr, failed, obuf, printed>>

Enqueue(f, p) == twork' = twork (+) One(Item(f, p, p, 0)) /\ UNCHANGED <<rc, dst>>
Reject == rc' = 1 /\ UNCHANGED <<twork, dst>>

cpr_arg ==
    /\ sc.tool = "cpr" /\ NextArg
    /\ LET p == sc.args[arg]
       IN  CASE Is(p, "d") -> IF check_contains(p, sc.at) \/ check_contains(sc.at, p)
                              THEN Reject ELSE Enqueue("cpr_dir", p)
             [] Is(p, "f") -> Enqueue("cpr_file", p)
             [] Is(p, "l") -> /\ dst' = Linked(dst, create_dst_name(p, p), sc.src[p].data)
                              /\ UNCHANGED <<twork, rc>>
             [] OTHER -> Reject

index2dir_arg == sc.tool = "index2dir" /\ NextArg /\ Enqueue("index2dir", sc.args[arg])

\* arguments that are links are followed
find_arg ==
    /\ sc.tool = "find" /\ NextArg
    /\ LET p == sc.args[arg]
           is(kind) == Is(p, kind) \/ (Is(p, "l") /\ sc.src[p].to = kind)
       IN  CASE is("d") -> Enqueue("find_dir", p)
             [] is("f") -> Enqueue("find_file", p)
             [] OTHER -> Reject

stop ==
    /\ mpc = "args" /\ arg > Len(sc.args)
    /\ twork = EmptyBag
    /\ \A t \in Workers: tthr[t] = Free
    /\ mpc' = "flush"
    /\ UNCHANGED <<sc, arg, twork, tthr, dst, failed, rc, obuf, printed>>

\* OutputBuffers_flush_to_single, and the exit status: gufi_index2dir does
\* not look at what its items returned
finish ==
    /\ mpc = "flush"
    /\ printed' = printed \o FoldSet(LAMBDA t, s: s \o obuf[t], <<>>, Workers)
    /\ obuf' = [t \in Workers |-> <<>>]
    /\ rc' = IF failed > 0 /\ sc.tool /= "index2dir" THEN 1 ELSE rc
    /\ mpc' = "done"
    /\ UNCHANGED <<sc, arg, twork, tthr, dst, failed>>

Main ==
    \/ setup \/ validate_inputs \/ find_setup \/ cpr_arg \/ index2dir_arg \/ find_arg
    \/ stop \/ finish

-----------------------------------------------------------------------------
(***************************************************************************)
(* The threads.                                                            *)
(***************************************************************************)
first(f) == CASE f = "cpr_dir"   -> "mkdir"
              [] f = "cpr_file"  -> "open"
              [] f = "index2dir" -> "remake"
              [] OTHER           -> "look"

take(t) ==
    /\ tthr[t] = Free
    /\ \E it \in DOMAIN twork:
        /\ twork' = twork (-) One(it)
        /\ tthr' = [tthr EXCEPT ![t] = [step |-> first(it.f), it |-> it, lines |-> <<>>, code |-> 0]]
    /\ UNCHANGED <<sc, mpc, arg, dst, failed, rc, obuf, printed>>

At(t, step) == tthr[t].step = step
Work(t) == tthr[t].it
Node(t) == sc.src[Work(t).path]
Image(t) == create_dst_name(Work(t).top, Work(t).path)
Rest == UNCHANGED <<sc, mpc, arg, rc, obuf, printed>>

(***************************************************************************)
(* cpr_dir: a directory that cannot be opened is left out without an       *)
(* error.  The copy exists before anything below it is enqueued.           *)
(***************************************************************************)
cpr_mkdir(t) ==
    /\ At(t, "mkdir")
    /\ LET image == Image(t)
           made == IF MayAdd(dst, image)
                   THEN Added(dst, image, Entry("d", Node(t).mode \ sc.umask)) ELSE dst
       IN  CASE ~Node(t).ok -> Done(t, 0) /\ UNCHANGED dst
             [] Node(t).ok /\ image \notin DOMAIN made -> Done(t, 1) /\ UNCHANGED dst
             [] Node(t).ok /\ image \in DOMAIN made ->
                  IF MayOwn(made, image, Node(t).own)
                  THEN dst' = [made EXCEPT ![image].own = Node(t).own] /\ Goes(t, "descend")
                  ELSE dst' = made /\ Done(t, 1)
    /\ UNCHANGED twork /\ Rest

\* links are copied in place, whatever comes of it
cpr_link(fs, top, p) == Linked(fs, create_dst_name(top, p), sc.src[p].data)

cpr_descend(t) ==
    /\ At(t, "descend")
    /\ LET nondirs == Nondirs(Work(t))
           files == {Item("cpr_file", Work(t).top, p, Work(t).level + 1): p \in {q \in nondirs: Is(q, "f")}}
           links == {q \in nondirs: Is(q, "l")}
       IN  /\ twork' = twork (+) BagOf(ChildDirs(Work(t)) \cup files)
           /\ dst' = FoldSet(LAMBDA p, fs: cpr_link(fs, Work(t).top, p), dst, links)
    /\ Goes(t, "xattrs")
    /\ Rest

cpr_xattrs(t) ==
    /\ At(t, "xattrs")
    /\ dst' = SetXattrs(dst, Image(t), Node(t).xattr)
    /\ Done(t, IF XattrFails(dst, Image(t), Node(t).xattr) THEN 1 ELSE 0)
    /\ UNCHANGED twork /\ Rest

cpr_open(t) ==
    /\ At(t, "open")
    /\ IF Node(t).ok /\ MayOpen(dst, Image(t))
       THEN dst' = Opened(dst, Image(t), Node(t).mode) /\ Goes(t, "copy")
       ELSE Done(t, 1) /\ UNCHANGED dst
    /\ UNCHANGED twork /\ Rest

cpr_file(t) ==
    /\ At(t, "copy")
    /\ IF Work(t).path \in sc.full THEN Done(t, 1) /\ UNCHANGED dst
       ELSE LET copied == [dst EXCEPT ![Image(t)].data = Node(t).data]
            IN  /\ dst' = SetXattrs(copied, Image(t), Node(t).xattr)
                /\ Done(t, IF XattrFails(copied, Image(t), Node(t).xattr) THEN 1 ELSE 0)
    /\ UNCHANGED twork /\ Rest

(***************************************************************************)
(* gufi_index2dir: the directory is created from the index directory, the  *)
(* subdirectories are enqueued, and only then are its files created and    *)
(* its own metadata set.  EEXIST from mkdir is no error, but its return    *)
(* value is what the item returns.                                         *)
(***************************************************************************)
index2dir_mkdir(t) ==
    /\ At(t, "remake")
    /\ CASE ~Node(t).ok \/ (Image(t) \notin DOMAIN dst /\ ~MayAdd(dst, Image(t))) ->
              Done(t, 1) /\ UNCHANGED dst
         [] Node(t).ok /\ Image(t) \in DOMAIN dst ->
              /\ tthr' = [tthr EXCEPT ![t].step = "spread", ![t].code = 1]
              /\ UNCHANGED <<dst, failed>>
         [] Node(t).ok /\ MayAdd(dst, Image(t)) ->
              /\ dst' = Added(dst, Image(t), Entry("d", Node(t).perm \ sc.umask))
              /\ Goes(t, "spread")
    /\ UNCHANGED twork /\ Rest

index2dir_descend(t) ==
    /\ At(t, "spread")
    /\ twork' = twork (+) BagOf(ChildDirs(Work(t)))
    /\ IF Node(t).db THEN Goes(t, "entries") ELSE Done(t, 1)
    /\ UNCHANGED dst /\ Rest

\* chmod and chown report errors only; the times come last
set_metadata(fs, p, n) ==
    IF p \notin DOMAIN fs THEN fs
    ELSE LET moded == [fs EXCEPT ![p].mode = IF sc.root \/ fs[p].own = "me" THEN n.mode ELSE @,
                                 ![p].own = IF MayOwn(fs, p, n.own) THEN n.own ELSE @]
         IN  [SetXattrs(moded, p, n.xattr) EXCEPT ![p].time = n.time]

process_entry(fs, p, image) ==
    IF sc.src[p].kind = "l" THEN Linked(fs, image, sc.src[p].data)
    ELSE set_metadata(IF MayOpen(fs, image) THEN Opened(fs, image, sc.src[p].mode) ELSE fs,
                      image, sc.src[p])

process_entries(t) ==
    /\ At(t, "entries")
    /\ dst' = FoldSet(LAMBDA p, fs: process_entry(fs, p, create_dst_name(Work(t).top, p)),
                      dst, Nondirs(Work(t)))
    /\ Goes(t, "summary")
    /\ UNCHANGED twork /\ Rest

process_summary(t) ==
    /\ At(t, "summary")
    /\ dst' = set_metadata(dst, Image(t), Node(t))
    /\ Goes(t, "chmod")
    /\ UNCHANGED twork /\ Rest

index2dir_chmod(t) ==
    /\ At(t, "chmod")
    /\ LET mine == sc.root \/ dst[Image(t)].own = "me"
       IN  dst' = [dst EXCEPT ![Image(t)].mode = IF mine THEN Node(t).perm ELSE @,
                              ![Image(t)].own = IF MayOwn(dst, Image(t), Node(t).own) THEN Node(t).own ELSE @]
    /\ Done(t, tthr[t].code)
    /\ UNCHANGED twork /\ Rest

(***************************************************************************)
(* parallel_find: the subdirectories are enqueued and the files and links  *)
(* printed while the directory is read, then the directory itself.         *)
(***************************************************************************)
Selected(p, level) ==
    /\ level >= sc.min
    /\ sc.types = {} \/ sc.src[p].kind \in sc.types

Before(s, stops) ==
    LET at == {k \in DOMAIN s: s[k] \in stops}
    IN  IF at = {} THEN s ELSE SubSeq(s, 1, Min(at) - 1)

\* \c, and a % at the end of the format, end a line; \0 ends what is
\* printed of it; a group that cannot be looked up leaves no line at all.
format_output(p, level, type) ==
    LET used == Before(sc.format, {"\\c", "% at the end"})
        shown == Before(used, {"\\0"})
        directive(x) == CASE x = "%p" -> p [] x = "%d" -> <<level>> [] x = "%y" -> <<type>> [] OTHER -> <<x>>
    IN  IF "%g" \in Range(used) /\ p \in sc.nogroup THEN <<>>
        ELSE <<[path |-> p, text |-> [k \in DOMAIN shown |-> directive(shown[k])]]>>

process_output(p, level, type) ==
    IF Selected(p, level) THEN format_output(p, level, type) ELSE <<>>

find_dir(t) ==
    /\ At(t, "look") /\ Work(t).f = "find_dir"
    /\ LET it == Work(t)
           open == sc.src[it.path].ok
           nondirs == IF open THEN SetToSeq(Nondirs(it)) ELSE <<>>
           lines == FoldLeft(LAMBDA s, p: s \o process_output(p, it.level + 1, sc.src[p].kind), <<>>, nondirs)
       IN  /\ twork' = IF open THEN twork (+) BagOf(ChildDirs(it)) ELSE twork
           /\ tthr' = [tthr EXCEPT ![t].step = "print",
                                   ![t].lines = lines \o process_output(it.path, it.level, "d"),
                                   ![t].code = IF open THEN 0 ELSE 1]
    /\ UNCHANGED <<dst, failed>> /\ Rest

find_file(t) ==
    /\ At(t, "look") /\ Work(t).f = "find_file"
    /\ tthr' = [tthr EXCEPT ![t].step = "print", ![t].lines = process_output(Work(t).path, 0, "f")]
    /\ UNCHANGED <<twork, dst, failed>> /\ Rest

\* print_parallel: a full buffer is written out under the mutex
Fits(t) == Len(obuf[t]) < Capacity

Buffered(t, line) == IF Fits(t) THEN obuf[t] \o line ELSE line

print_line(t) ==
    /\ At(t, "print") /\ tthr[t].lines /= <<>>
    /\ LET line == <<Head(tthr[t].lines)>>
       IN  /\ obuf' = [obuf EXCEPT ![t] = Buffered(t, line)]
           /\ printed' = IF Fits(t) THEN printed ELSE printed \o obuf[t]
    /\ tthr' = [tthr EXCEPT ![t].lines = Tail(@)]
    /\ UNCHANGED <<sc, mpc, arg, twork, dst, failed, rc>>

print_end(t) ==
    /\ At(t, "print") /\ tthr[t].lines = <<>>
    /\ Done(t, tthr[t].code)
    /\ UNCHANGED <<twork, dst>> /\ Rest

Worker(t) ==
    \/ take(t)
    \/ cpr_mkdir(t) \/ cpr_descend(t) \/ cpr_xattrs(t) \/ cpr_open(t) \/ cpr_file(t)
    \/ index2dir_mkdir(t) \/ index2dir_descend(t) \/ process_entries(t)
    \/ process_summary(t) \/ index2dir_chmod(t)
    \/ find_dir(t) \/ find_file(t) \/ print_line(t) \/ print_end(t)

TNext == Main \/ \E t \in Workers: Worker(t)

-----------------------------------------------------------------------------
(***************************************************************************)
(* What a run has to leave behind, said of the trees alone.                *)
(***************************************************************************)
Accepted ==
    {k \in DOMAIN sc.args:
        /\ sc.args[k] \in DOMAIN sc.src
        /\ sc.src[sc.args[k]].kind \in {"d", "f", "l"}
        /\ sc.src[sc.args[k]].kind = "d" =>
              ~IsPrefix(sc.args[k], sc.at) /\ ~IsPrefix(sc.at, sc.args[k])}
Trees(tops) == {x \in tops \X DOMAIN sc.src: IsPrefix(x[1], x[2])}
Dirs(r, p) == {SubSeq(p, 1, k): k \in Len(r)..(Len(p) - 1)}
ImageOf(r, p) == SubSeq(p, Len(r), Len(p))

\* the permissions the parent of the image of p has while p is handled
ParentMode(r, p) ==
    LET up == Front(ImageOf(r, p))
    IN  IF up \in DOMAIN sc.dst THEN sc.dst[up].mode
        ELSE IF up = <<>> THEN {"r", "w"}
        ELSE (IF sc.tool = "cpr" THEN sc.src[Front(p)].mode ELSE sc.src[Front(p)].perm) \ sc.umask
ParentIsDir(r, p) ==
    LET up == Front(ImageOf(r, p)) IN up \in DOMAIN sc.dst => sc.dst[up].kind = "d"

Existed(r, p) == ImageOf(r, p) \in DOMAIN sc.dst
CanBeMade(r, p) ==
    \/ sc.tool = "index2dir" /\ p = r
    \/ ParentIsDir(r, p) /\ (sc.root \/ "w" \in ParentMode(r, p))
OwnerBefore(r, p) == IF Existed(r, p) THEN sc.dst[ImageOf(r, p)].own ELSE "me"
Ownable(r, p) == sc.root \/ OwnerBefore(r, p) = sc.src[p].own

\* directory q lets the walk through to what is below it
Passes(r, q) ==
    /\ sc.src[q].kind = "d" /\ sc.src[q].ok
    /\ Existed(r, q) \/ CanBeMade(r, q)
    /\ sc.tool = "cpr" => Ownable(r, q)
Arrives(r, p) == \A q \in Dirs(r, p): Passes(r, q)

Overwritable(r, p) ==
    LET old == sc.dst[ImageOf(r, p)] IN old.kind = "f" /\ (sc.root \/ "w" \in old.mode)

\* the walk comes to p and changes its image; gufi_index2dir sets the
\* metadata of a file that it could not open, too
Written(r, p) ==
    /\ Arrives(r, p)
    /\ CASE sc.src[p].kind = "d" ->
              /\ sc.src[p].ok \/ (sc.tool = "index2dir" /\ p = r)
              /\ Existed(r, p) \/ CanBeMade(r, p)
         [] sc.src[p].kind = "f" ->
              /\ sc.tool = "cpr" => sc.src[p].ok
              /\ sc.tool = "index2dir" => sc.src[Front(p)].db
              /\ IF Existed(r, p) THEN sc.tool = "index2dir" \/ Overwritable(r, p) ELSE CanBeMade(r, p)
         [] sc.src[p].kind = "l" ->
              /\ sc.tool = "index2dir" => sc.src[Front(p)].db
              /\ ~Existed(r, p) /\ CanBeMade(r, p)
         [] OTHER -> FALSE

\* mode, owner, contents and extended attributes of a copied entry
CopyOf(r, p) ==
    LET n == sc.src[p]
        old == IF Existed(r, p) THEN sc.dst[ImageOf(r, p)]
               ELSE Entry(n.kind, IF n.kind = "l" THEN {} ELSE n.mode \ sc.umask)
    IN  [old EXCEPT
          !.own = IF n.kind = "d" /\ Ownable(r, p) THEN n.own ELSE @,
          !.data = CASE n.kind = "l" -> n.data
                     [] n.kind = "f" -> IF p \in sc.full THEN "" ELSE n.data
                     [] OTHER -> @,
          !.xattr = IF sc.xattrs /\ n.kind /= "l" /\ (sc.root \/ "w" \in old.mode) /\ p \notin sc.full
                       /\ (n.kind = "d" => Ownable(r, p))
                    THEN @ \cup n.xattr ELSE @]

\* a rebuilt entry; a directory without a readable database has no metadata
RebuiltOf(r, p) ==
    LET n == sc.src[p]
        old == IF Existed(r, p) THEN sc.dst[ImageOf(r, p)] ELSE Entry(n.kind, {})
        mine == sc.root \/ old.own = "me"
        marked == IF sc.xattrs /\ (sc.root \/ "w" \in n.mode) THEN old.xattr \cup n.xattr ELSE old.xattr
        bare == n.kind = "d" /\ ~(n.ok /\ n.db)
    IN  CASE n.kind = "l" -> [old EXCEPT !.data = n.data]
          [] n.kind /= "l" /\ bare -> IF Existed(r, p) THEN old ELSE Entry("d", n.perm \ sc.umask)
          [] n.kind /= "l" /\ ~bare ->
               [old EXCEPT !.mode = IF ~mine THEN @ ELSE IF n.kind = "d" THEN n.perm ELSE n.mode,
                           !.own = IF Ownable(r, p) THEN n.own ELSE @,
                           !.data = IF Existed(r, p) /\ ~Overwritable(r, p) THEN @ ELSE "",
                           !.xattr = marked, !.time = n.time]

Tops == {sc.args[k]: k \in Accepted}
Expected ==
    LET written == {x \in Trees(Tops): Written(x[1], x[2])}
        at(i) == CHOOSE x \in written: ImageOf(x[1], x[2]) = i
    IN  [i \in {ImageOf(x[1], x[2]): x \in written} |->
            IF sc.tool = "cpr" THEN CopyOf(at(i)[1], at(i)[2]) ELSE RebuiltOf(at(i)[1], at(i)[2])]

\* the times of an entry that nothing is created in afterwards
Settled(i) == ~\E j \in DOMAIN dst: j /= <<>> /\ Front(j) = i /\ dst[j].kind = "d"
Timeless(e) == [e EXCEPT !.time = ""]

\* Whatever the threads do in which order, everything that can be copied or
\* rebuilt is there in the end with the metadata the tool gives it, nothing
\* else has been touched, and parallel_cpr says so when something that it
\* tried has failed.  The time of a rebuilt directory is right unless it has
\* subdirectories, which may be created after it has been set.
CopyExact ==
    (mpc = "done" /\ sc.tool /= "find") =>
        /\ \A i \in DOMAIN Expected: i \in DOMAIN dst /\ Timeless(dst[i]) = Timeless(Expected[i])
        /\ \A i \in DOMAIN dst \ (DOMAIN Expected \cup {<<>>}):
              i \in DOMAIN sc.dst /\ Timeless(dst[i]) = Timeless(sc.dst[i])
        /\ sc.tool = "index2dir" =>
              \A i \in DOMAIN Expected: Settled(i) => dst[i].time = Expected[i].time
        /\ (sc.tool = "cpr" /\ rc = 0) =>
              \A x \in Trees(Tops): (sc.src[x[2]].kind = "f" /\ Arrives(x[1], x[2])) =>
                  /\ Written(x[1], x[2])
                  /\ dst[ImageOf(x[1], x[2])].data = sc.src[x[2]].data

\* the lines parallel_find has to print of the tree below argument r
FoundBelow(r) ==
    LET level(p) == Len(p) - Len(r)
        seen == {p \in DOMAIN sc.src:
                  /\ IsPrefix(r, p)
                  /\ \A q \in Dirs(r, p): sc.src[q].ok
                  /\ sc.types = {} \/ sc.src[p].kind \in sc.types
                  /\ IF p = r \/ sc.src[p].kind = "d" THEN level(p) >= sc.min /\ (level(p) <= sc.max \/ p = r)
                     ELSE level(p) - 1 >= sc.min /\ level(p) - 1 <= sc.max
                  /\ sc.src[p].kind \in {"d", "f", "l"}}
    IN  {p \in seen: ~("%g" \in Range(Before(sc.format, {"\\c"})) /\ p \in sc.nogroup)}

Found ==
    LET tops == SelectSeq(sc.args, LAMBDA p: \/ Is(p, "d") \/ Is(p, "f")
                                             \/ Is(p, "l") /\ sc.src[p].to \in {"d", "f"})
    IN  FoldLeft(LAMBDA b, r: b (+) BagOf(FoundBelow(r)), EmptyBag, tops)

\* Every entry of the levels and types asked for below a directory that can
\* be read is printed exactly once for each argument it lies below, however
\* the threads' buffers fill up and are flushed.
FindExact ==
    (mpc = "done" /\ sc.tool = "find") =>
        /\ FoldLeft(LAMBDA b, line: b (+) One(line.path), EmptyBag, printed) = Found
        /\ \A t \in Workers: obuf[t] = <<>>

\* What a tool leaves behind or prints is right in every order of its items
\* (parallel_cpr, gufi_index2dir, parallel_find).
ToolsExact == CopyExact /\ FindExact

=============================================================================
