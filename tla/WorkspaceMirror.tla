--------------------------- MODULE WorkspaceMirror ---------------------------
(***************************************************************************)
(* A working tree and its copy on a sidecar: a push makes the workspace an *)
(* exact copy of the tree, minus what git ignores; a pull brings the       *)
(* workspace back, minus what git ignores there, and leaves alone what the *)
(* tree tracks and git ignores all the same.  Files go one by one, while   *)
(* others edit both sides, and a transfer may break off anywhere.          *)
(*                                                                         *)
(* The ignore rules are the same on both sides; a file's content is a      *)
(* number, 0 when there is no such file.                                   *)
(***************************************************************************)
EXTENDS Naturals, FiniteSets

CONSTANTS Paths,
          Ignored,            \* what .gitignore matches
          Tracked,            \* what the tree's index lists
          InWorktree,         \* the tree is a git worktree, its .git a pointer file
          Contents,           \* numbers of contents
          MaxEdits, MaxTransfers

MirrorAssumption ==
    /\ Ignored \subseteq Paths /\ Tracked \subseteq Paths
    /\ InWorktree \in BOOLEAN /\ Contents \in Nat \ {0}
    /\ MaxEdits \in Nat /\ MaxTransfers \in Nat

VARIABLES tree, copy,         \* the files here and on the sidecar
          gitDir,             \* the workspace's .git: "none", "pointer", "repo"
          saved,              \* the workspace the active record names
          transfer,           \* what is going on, and what is left of it
          touched,            \* edited on either side since it began
          mine,               \* what somebody here last wrote (history)
          edits, transfers

mirrorVars == <<tree, copy, gitDir, saved, transfer, touched, mine, edits, transfers>>

Files == [Paths -> 0..Contents]
NoTransfer == [op |-> "none", at |-> "rest", todo |-> {}, kept |-> {}]
Workspaces == {"none", "default", "named"}

MirrorTypeOK ==
    /\ tree \in Files /\ copy \in Files /\ mine \in Files
    /\ gitDir \in {"none", "pointer", "repo"}
    /\ saved \in Workspaces
    /\ transfer \in [op : {"none", "push", "pull"}, todo : SUBSET Paths, kept : SUBSET Paths,
                     at : {"rest", "rsync", "mkdir", "files", "git", "list", "done", "failed"}]
    /\ touched \subseteq Paths
    /\ edits \in 0..MaxEdits /\ transfers \in 0..MaxTransfers

InitMirror ==
    /\ tree = [p \in Paths |-> 1] /\ copy = [p \in Paths |-> 0]
    /\ mine = tree
    /\ gitDir \in {"none", "pointer"}       \* what an older sync may have left
    /\ saved = "none"
    /\ transfer = NoTransfer /\ touched = {}
    /\ edits = 0 /\ transfers = 0

TransferOver == transfer.at \in {"rest", "done", "failed"}

-----------------------------------------------------------------------------
(* Editors.                                                                *)

EditTree(p, c) ==
    /\ edits < MaxEdits /\ tree[p] # c
    /\ edits' = edits + 1
    /\ tree' = [tree EXCEPT ![p] = c] /\ mine' = [mine EXCEPT ![p] = c]
    /\ touched' = touched \cup {p}
    /\ UNCHANGED <<copy, gitDir, saved, transfer, transfers>>

EditCopy(p, c) ==
    /\ edits < MaxEdits /\ copy[p] # c
    /\ edits' = edits + 1
    /\ copy' = [copy EXCEPT ![p] = c]
    /\ touched' = touched \cup {p}
    /\ UNCHANGED <<tree, gitDir, saved, transfer, mine, transfers>>

-----------------------------------------------------------------------------
(* Pushing: find the workspace, make sure of rsync and of the directory,   *)
(* copy, and give a worktree's copy a repository of its own.               *)

\* A worktree's is named for the origin, before what the record says; any
\* other tree's is what was given, what was saved, or named for the repo.
Workspace(given) ==
    IF given THEN "named"
    ELSE IF InWorktree \/ saved = "none" THEN "default" ELSE saved

\* An ephemeral push is given its directory and leaves the record alone.
BeginPush(given, persist) ==
    /\ TransferOver /\ transfers < MaxTransfers
    /\ persist \/ given
    /\ transfers' = transfers + 1
    /\ transfer' = [op |-> "push", at |-> "rsync", todo |-> {}, kept |-> {}]
    /\ saved' = IF persist THEN Workspace(given) ELSE saved
    /\ touched' = {}
    /\ UNCHANGED <<tree, copy, gitDir, mine, edits>>

Proceeds(op, from, to) ==
    /\ transfer.op = op /\ transfer.at = from
    /\ transfer' = [transfer EXCEPT !.at = to]

EnsureRemoteRsync ==
    /\ Proceeds("push", "rsync", "mkdir")
    /\ UNCHANGED <<tree, copy, gitDir, saved, touched, mine, edits, transfers>>

Mkdir ==
    /\ transfer.op = "push" /\ transfer.at = "mkdir"
    /\ transfer' = [transfer EXCEPT !.at = "files", !.todo = Paths, !.kept = Ignored]
    /\ UNCHANGED <<tree, copy, gitDir, saved, touched, mine, edits, transfers>>

Moves(p) == p \notin transfer.kept

\* Mutant: a worktree's copy keeps the pointer it has.
AfterFilesDone == "done"

AfterFiles == IF transfer.op = "push" /\ InWorktree THEN "git" ELSE "done"
Rest(p) ==
    LET left == transfer.todo \ {p}
    IN  transfer' = [transfer EXCEPT !.todo = left, !.at = IF left = {} THEN AfterFiles ELSE @]

\* A copy, or a deletion of what is not there; a tree of its own sends .git too.
PushFile(p) ==
    /\ transfer.op = "push" /\ transfer.at = "files" /\ p \in transfer.todo
    /\ copy' = IF Moves(p) THEN [copy EXCEPT ![p] = tree[p]] ELSE copy
    /\ gitDir' = IF InWorktree THEN gitDir ELSE "repo"
    /\ Rest(p)
    /\ UNCHANGED <<tree, saved, touched, mine, edits, transfers>>

\* A pointer an earlier sync left goes, and a repository takes its place.
InitWorktreeGitRepo ==
    /\ Proceeds("push", "git", "done")
    /\ gitDir' = "repo"
    /\ UNCHANGED <<tree, copy, saved, touched, mine, edits, transfers>>

-----------------------------------------------------------------------------
(* Pulling: what git ignores is listed on the sidecar, what the tree       *)
(* tracks and git ignores here, and neither moves.                         *)

BeginPull ==
    /\ TransferOver /\ transfers < MaxTransfers /\ gitDir = "repo"
    /\ transfers' = transfers + 1
    /\ transfer' = [op |-> "pull", at |-> "list", todo |-> {}, kept |-> {}]
    /\ touched' = {}
    /\ UNCHANGED <<tree, copy, gitDir, saved, mine, edits>>

IgnoredPaths == {p \in Ignored : copy[p] # 0}

\* Mutant: what the sidecar does not have is gone here too.
TrackedIgnoredNone == {}

TrackedIgnoredPaths == Tracked \cap Ignored

ListExcluded ==
    /\ transfer.op = "pull" /\ transfer.at = "list"
    /\ transfer' = [transfer EXCEPT !.at = "files", !.todo = Paths,
                                    !.kept = IgnoredPaths \cup TrackedIgnoredPaths]
    /\ UNCHANGED <<tree, copy, gitDir, saved, touched, mine, edits, transfers>>

PullFile(p) ==
    /\ transfer.op = "pull" /\ transfer.at = "files" /\ p \in transfer.todo
    /\ tree' = IF Moves(p) THEN [tree EXCEPT ![p] = copy[p]] ELSE tree
    /\ Rest(p)
    /\ UNCHANGED <<copy, gitDir, saved, touched, mine, edits, transfers>>

\* A session that cannot be opened, a script that fails, a broken connection.
BreakOff ==
    /\ ~TransferOver
    /\ transfer' = [transfer EXCEPT !.at = "failed", !.todo = {}]
    /\ UNCHANGED <<tree, copy, gitDir, saved, touched, mine, edits, transfers>>

NextMirror ==
    \/ \E p \in Paths : PushFile(p) \/ PullFile(p)
                        \/ \E c \in 0..Contents : EditTree(p, c) \/ EditCopy(p, c)
    \/ \E given, persist \in BOOLEAN : BeginPush(given, persist)
    \/ EnsureRemoteRsync \/ Mkdir \/ InitWorktreeGitRepo
    \/ BeginPull \/ ListExcluded \/ BreakOff

SpecMirror == InitMirror /\ [][NextMirror]_mirrorVars

-----------------------------------------------------------------------------
(* A push that says Synced left the workspace an exact copy of every file  *)
(* nobody edited meanwhile, whatever the workspace held before, and a      *)
(* working repository around it (mirrorFlags, rsync.go:276).               *)
SyncedIsExact ==
    transfer.op = "push" /\ transfer.at = "done" =>
        /\ \A p \in Paths \ (Ignored \cup touched) : copy[p] = tree[p]
        /\ gitDir = "repo"

(* No pull takes away or replaces what the tree tracks and git ignores: a  *)
(* push never sent it (trackedIgnoredPaths, rsync.go:226).                 *)
TrackedKept == \A p \in Tracked \cap Ignored : tree[p] = mine[p]
=============================================================================
