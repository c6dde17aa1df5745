--------------------------- MODULE ShellCommands ---------------------------
(***************************************************************************)
(* The commands of the SSH file shell (net/FileShell.cpp) and the paths they *)
(* are typed with (net/FileShellPath.cpp), on the volumes of FilePanels.     *)
(*                                                                         *)
(* rm, mv and cp look first and act then, and the files change in between.   *)
(* ls, cat, df and pwd change nothing.                                       *)
(***************************************************************************)
EXTENDS Integers, FilePanels

CONSTANTS
    Typed,              \* what the operator types: [volume, parts]
    Spelled,            \* more of it, for the paths alone
    MaxDepth            \* bound on the depth of a directory to stand in

Dot == 9                \* `.` or an empty component; no name is 9
Relative == 0           \* no volume was typed
NoVolumeOf == 3         \* an absolute path that starts with no volume

ASSUME TypedAssumption ==
    /\ MaxDepth \in Nat
    /\ \A t \in Typed \cup Spelled : t.volume \in {Relative, 1, 2, NoVolumeOf} /\ t.parts \in Seq(Nat)

VARIABLES
    cwd,                \* current_
    cmd                 \* the command that has looked and not yet acted; `means` is what was typed

shellVars == <<cwd, cmd>>
NoCommand == [op |-> "none"]

ShellTypeOK ==
    /\ Len(cwd) > 0 /\ cwd[1] \in Side
    /\ cmd.op \in {"none", "rm", "mv", "cp"}

ShellInit == cwd = Root(1) /\ cmd = NoCommand

-----------------------------------------------------------------------------
\* One component: `..` takes a name away, and <<Up>> says that one left the volume.
stepped(at, part) ==
    CASE at = <<Up>> \/ part = Dot -> at
      [] at # <<Up>> /\ part = Up -> IF at = <<>> THEN <<Up>> ELSE Front(at)
      [] OTHER -> Append(at, part)

\* The components one by one.
folded(base, parts) ==
    LET after[n \in 0 .. Len(parts)] == IF n = 0 THEN base ELSE stepped(after[n - 1], parts[n])
    IN after[Len(parts)]

\* The path that was meant, or nothing: a volume, then names.
resolve(typed) ==
    LET volume == IF typed.volume = Relative THEN cwd[1] ELSE typed.volume
        base == IF typed.volume = Relative THEN Tail(cwd) ELSE <<>>
        names == folded(base, typed.parts)
    IN IF volume = NoVolumeOf \/ names = <<Up>> THEN Nothing ELSE Root(volume) \o names

\* What a path denotes, said at once: no `..` is without a name before it, and the
\* name at each depth is the last that was typed there.
PartName == Nat \ {Up, Dot}
Depth(parts, j) ==
    Cardinality({k \in 1..j : parts[k] \in PartName}) - Cardinality({k \in 1..j : parts[k] = Up})
TypedAt(parts, n, r) == {j \in 1..n : parts[j] \in PartName /\ Depth(parts, j) = r}
Denotes(typed) ==
    LET relative == typed.volume = Relative
        parts == (IF relative THEN Tail(cwd) ELSE <<>>) \o typed.parts
        n == Len(parts)
    IN IF typed.volume = NoVolumeOf \/ \E j \in 1..n : Depth(parts, j) < 0 THEN Nothing
       ELSE Root(IF relative THEN cwd[1] ELSE typed.volume)
                \o [r \in 1..Depth(parts, n) |-> parts[Max(TypedAt(parts, n, r))]]

\* Without a path, to the root of the volume.  The directory need not exist.
cmdCd(typed) ==
    /\ cmd = NoCommand
    /\ cwd' = IF typed = [volume |-> Relative, parts |-> <<>>] THEN Root(cwd[1])
              ELSE IF resolve(typed) = Nothing THEN cwd ELSE resolve(typed)
    /\ Len(cwd') <= MaxDepth
    /\ UNCHANGED <<disk, cmd>>

-----------------------------------------------------------------------------
cmdMkdir(typed) ==
    /\ cmd = NoCommand /\ resolve(typed) \in Path
    /\ disk' \in done("NewDirectory", Nothing, resolve(typed)) \cup failed("NewDirectory", resolve(typed))
    /\ UNCHANGED shellVars

\* An existing file keeps what it holds.
cmdTouch(typed) ==
    /\ cmd = NoCommand /\ resolve(typed) \in Path
    /\ disk' \in done("NewFile", Nothing, resolve(typed)) \cup failed("NewFile", resolve(typed))
    /\ UNCHANGED shellVars

\* Not a root; a directory only with -r.
cmdRm(typed, recursive) ==
    LET target == resolve(typed) IN
    /\ cmd = NoCommand /\ target \in disk
    /\ target \in DirPath => recursive
    /\ cmd' = [op |-> "rm", from |-> target, means |-> Denotes(typed)]
    /\ UNCHANGED <<disk, cwd>>

\* removeTree or removeFile: a tree may be left half removed.
cmdRm_Act ==
    /\ cmd.op = "rm"
    /\ LET tree == {p \in disk : Within(cmd.from, p)} IN
        disk' \in {disk \ tree} \cup {disk \ lost : lost \in SUBSET (tree \ {cmd.from})}
    /\ cmd' = NoCommand
    /\ UNCHANGED cwd

cmdMv(typed, target, force) ==
    LET from == resolve(typed)
        to == resolve(target)
    IN
    /\ cmd = NoCommand /\ from # Nothing /\ to \in Path
    /\ to \notin disk \/ force
    /\ cmd' = [op |-> "mv", from |-> from, to |-> to, force |-> force, raced |-> FALSE,
               means |-> Denotes(typed)]
    /\ UNCHANGED <<disk, cwd>>

cmdMv_Act ==
    /\ cmd.op = "mv"
    /\ disk' \in done("Rename", cmd.from, cmd.to) \cup {disk}
    /\ cmd' = NoCommand
    /\ UNCHANGED cwd

\* As if: only mv asked for -f.
cmdCp_Forced(typed, target, force) ==
    LET from == resolve(typed)
        to == resolve(target)
    IN
    /\ cmd = NoCommand /\ from \in disk \ DirPath /\ to \in Path
    /\ cmd' = [op |-> "cp", from |-> from, to |-> to, force |-> force, raced |-> FALSE,
               means |-> Denotes(target)]
    /\ UNCHANGED <<disk, cwd>>

\* A file, not a directory.
cmdCp(typed, target, force) ==
    LET from == resolve(typed)
        to == resolve(target)
    IN
    /\ cmd = NoCommand /\ from \in disk \ DirPath /\ to \in Path
    /\ to \notin disk \/ force
    /\ cmd' = [op |-> "cp", from |-> from, to |-> to, force |-> force, raced |-> FALSE,
               means |-> Denotes(target)]
    /\ UNCHANGED <<disk, cwd>>

cmdCp_Act ==
    /\ cmd.op = "cp"
    /\ disk' \in done("Copy", cmd.from, cmd.to) \cup failed("Copy", cmd.to)
    /\ cmd' = NoCommand
    /\ UNCHANGED cwd

\* The web page or another session works between the look and the act.
othersWork ==
    /\ \E p \in Path :
        /\ disk' = IF p \in disk THEN disk \ {q \in disk : Within(p, q)}
                   ELSE IF room(p) THEN disk \cup {p} ELSE disk
        /\ cmd' = IF cmd.op \in {"mv", "cp"} /\ cmd.to = p /\ p \notin disk
                  THEN [cmd EXCEPT !.raced = TRUE] ELSE cmd
    /\ UNCHANGED cwd

\* execute: the word typed first chooses the command.
ShellNext ==
    /\ \/ \E typed \in Typed : cmdCd(typed) \/ cmdMkdir(typed) \/ cmdTouch(typed)
       \/ \E typed \in Typed, flag \in BOOLEAN : cmdRm(typed, flag)
       \/ \E typed, target \in Typed, flag \in BOOLEAN :
            cmdMv(typed, target, flag) \/ cmdCp(typed, target, flag)
       \/ cmdRm_Act \/ cmdMv_Act \/ cmdCp_Act \/ othersWork
    /\ UNCHANGED <<panel, side, mode, subject>>

-----------------------------------------------------------------------------
\* Every typed path denotes what it means, wherever the shell stands, and none
\* that would leave its volume is accepted.
ResolveIsWalk == cmd = NoCommand => \A typed \in Spelled : resolve(typed) = Denotes(typed)

\* What a command takes from the volumes is what was typed: rm the tree, mv the
\* source, cp at most a target that it was told to replace or that appeared
\* after it had looked.
CommandTakesOwn ==
    cmd.op # "none" /\ cmd' = NoCommand =>
        \A p \in disk \ disk' :
            \/ cmd.op \in {"rm", "mv"} /\ Within(cmd.means, p)
            \/ cmd.op = "cp" /\ p = cmd.means /\ (cmd.force \/ cmd.raced)

\* mv -f replaces what stands in its way: "-f replaces an existing target".
ForceReplaces ==
    [][cmd.op = "mv" /\ cmd.force /\ cmd' = NoCommand /\ cmd.from \in disk \ DirPath
            /\ cmd.to \in disk \ DirPath /\ cmd.from # cmd.to /\ cmd.from[1] = cmd.to[1] =>
        cmd.from \notin disk']_<<disk, shellVars>>
=============================================================================
