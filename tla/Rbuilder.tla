------------------------------ MODULE Rbuilder ------------------------------
(***************************************************************************)
(* rbuilder (src/project): builds the project of the current directory on  *)
(* a remote host, through ssh and scp.  Every step is one system() whose    *)
(* result nobody looks at: a step that fails, for the link is down or the   *)
(* user has pressed Ctrl-C (which system() ignores in the caller), is       *)
(* followed by the next one.  Two users, or one in two windows, share the   *)
(* default work directory of the host.                                      *)
(*                                                                          *)
(* A remote command is "cd work_dir; ...": where there is no such directory *)
(* it runs in the home directory.                                           *)
(***************************************************************************)
EXTENDS Naturals, FiniteSets

CONSTANTS
    Builders,   \* running copies of rbuilder, each in a directory of its own
    Names,      \* files a project may have besides rbuilder.conf
    TempNames,  \* those whose name begins with "temp"
    HiddenNames,  \* those whose name begins with a dot
    MaxRuns,    \* bound: runs in all
    MaxFaults   \* bound: steps that fail and runs that are killed

VARIABLES
    step,      \* [Builders -> the next command, or "idle"]
    local,     \* [Builders -> the files of its directory]
    archive,   \* [Builders -> the files in ./temp.tar, or NoTar]
    kind,      \* what work_dir is: "none", "file" or "dir"
    work,      \* the files in it
    sent,      \* the files in its temp.tar
    home,      \* the files in the home directory
    runs,      \* runs begun
    faults,    \* how many steps have failed and runs been killed
    vain,      \* history: a clean has begun with no work directory to clean
    alone,     \* history: [Builders -> nothing has failed in its run and no
               \*   other one has used the host meanwhile]
    calm       \* history: every run so far has been alone

NoTar == {"no archive"}

builderVars == <<step, local, archive, runs>>
remoteVars  == <<kind, work, sent, home>>
vars == <<builderVars, remoteVars, faults, vain, alone, calm>>

\* What the user of the host keeps there; a build has an "out" of its own.
HomeFiles == {"mine", "out", "rbuilder.conf"}

Lists == {"dependences", "build_comm", "install_comm", "clean_comm"}

Init ==
    /\ step = [b \in Builders |-> "idle"] /\ runs = 0 /\ faults = 0
    /\ local = [b \in Builders |-> {}] /\ archive = [b \in Builders |-> NoTar]
    /\ kind = "none" /\ work = {} /\ sent = {} /\ home = HomeFiles
    /\ alone = [b \in Builders |-> TRUE] /\ calm = TRUE /\ vain = FALSE

----------------------------------------------------------------------------
(* The order of the commands. *)

Order == <<"tar", "prepare", "scp", "untar", "dependences", "build_comm", "rmLocal", "rmRemote",
           "install_comm", "clean_comm", "rmWork">>

Of(role) == CASE role = "build"   -> 1 .. 8
              [] role = "install" -> {9}
              [] role = "clean"   -> {10, 11}

First(role) == Order[CHOOSE k \in Of(role) : \A l \in Of(role) : k <= l]

\* What follows a command in its role.
After(s) == LET here == CHOOSE k \in DOMAIN Order : Order[k] = s
            IN  IF s \in {"rmRemote", "install_comm", "rmWork"} THEN "idle" ELSE Order[here + 1]

\* The others are not alone any more.
Alone(b) == [c \in Builders |-> alone[c] /\ (c = b \/ step[c] = "idle")]

Calm == calm' = (calm /\ \A b \in Builders : alone'[b])

\* read_conf, and the role by its first letters: what the user has in the
\* directory now is what the run works on.
Start(b) ==
    /\ step[b] = "idle" /\ runs < MaxRuns
    /\ \E role \in {"build", "install", "clean"} :
         /\ step' = [step EXCEPT ![b] = First(role)]
         /\ vain' = (vain \/ (role = "clean" /\ kind # "dir"))
    /\ \E files \in SUBSET Names : local' = [local EXCEPT ![b] = files \cup {"rbuilder.conf"}]
    /\ runs' = runs + 1
    /\ alone' = [alone EXCEPT ![b] = \A c \in Builders \ {b} : step[c] = "idle"]
    /\ Calm
    /\ UNCHANGED <<archive, remoteVars, faults>>

Does(b, s) ==
    /\ step[b] = s
    /\ step' = [step EXCEPT ![b] = After(s)]
    /\ alone' = Alone(b) /\ Calm
    /\ UNCHANGED <<runs, faults, vain>>

\* A list of commands that is empty in rbuilder.conf is not run.
Empty(b) ==
    /\ step[b] \in Lists
    /\ step' = [step EXCEPT ![b] = After(step[b])]
    /\ UNCHANGED <<local, archive, runs, remoteVars, faults, vain, alone, calm>>

\* What a remote command works in.
Cwd == IF kind = "dir" THEN work ELSE home

SetCwd(files) ==
    /\ work' = IF kind = "dir" THEN files ELSE work
    /\ home' = IF kind = "dir" THEN home ELSE files

Hidden == HiddenNames \cup {".cache"}

Visible(files) == files \ Hidden     \* what the shell makes of *

----------------------------------------------------------------------------
(* The commands. *)

\* tar -cf temp.tar ./* : hidden files stay behind.
Tar(b) ==
    /\ Does(b, "tar")
    /\ archive' = [archive EXCEPT ![b] = Visible(local[b])]
    /\ UNCHANGED <<local, remoteVars>>

\* Variant: the work directory is not made first.
PrepareNoMkdir(b) ==
    /\ Does(b, "prepare")
    /\ SetCwd(Cwd \ Visible(Cwd)) /\ UNCHANGED kind
    /\ UNCHANGED <<local, archive, sent>>

\* Variant: nothing is removed.
PrepareKeep(b) ==
    /\ Does(b, "prepare")
    /\ kind' = IF kind = "none" THEN "dir" ELSE kind
    /\ UNCHANGED <<local, archive, work, sent, home>>

\* mkdir -p W; cd W; rm -r ./* leaves the hidden files in W.  A file in place of W
\* makes the first two fail.
Prepare(b) ==
    /\ Does(b, "prepare")
    /\ IF kind = "none"
         THEN kind' = "dir" /\ work' = {} /\ UNCHANGED home
         ELSE SetCwd(Cwd \ Visible(Cwd)) /\ UNCHANGED kind
    /\ UNCHANGED <<local, archive, sent>>

\* scp to a name that is no directory writes a file of that name.
Scp(b) ==
    /\ Does(b, "scp")
    /\ IF archive[b] = NoTar
         THEN UNCHANGED remoteVars
         ELSE /\ IF kind = "dir"
                   THEN work' = work \cup {"temp.tar"} /\ sent' = archive[b] /\ UNCHANGED kind
                   ELSE kind' = "file" /\ UNCHANGED <<work, sent>>
              /\ UNCHANGED home
    /\ UNCHANGED <<local, archive>>

Untar(b) ==
    /\ Does(b, "untar")
    /\ IF kind = "dir" /\ "temp.tar" \in work THEN work' = work \cup sent ELSE UNCHANGED work
    /\ UNCHANGED <<local, archive, kind, sent, home>>

\* apt-get changes nothing in the directories, the install commands neither.
OtherComm(b) ==
    /\ Does(b, "dependences") \/ Does(b, "install_comm")
    /\ UNCHANGED <<local, archive, remoteVars>>

\* make leaves a program and a hidden file.
Build(b) ==
    /\ Does(b, "build_comm")
    /\ SetCwd(Cwd \cup {"out", ".cache"})
    /\ UNCHANGED <<local, archive, kind, sent>>

\* rm -r ./temp* takes the user's files of such names with it.
RmLocal(b) ==
    /\ Does(b, "rmLocal")
    /\ archive' = [archive EXCEPT ![b] = NoTar]
    /\ local' = [local EXCEPT ![b] = @ \ TempNames]
    /\ UNCHANGED <<remoteVars>>

\* Variant: the second rm is not run, or by the local shell.
RmRemoteHalf(b) ==
    /\ Does(b, "rmRemote")
    /\ SetCwd(Cwd \ {"temp.tar"})
    /\ UNCHANGED <<local, archive, kind, sent>>

RmRemote(b) ==
    /\ Does(b, "rmRemote")
    /\ SetCwd(Cwd \ {"temp.tar", "rbuilder.conf"})
    /\ UNCHANGED <<local, archive, kind, sent>>

\* The clean commands undo the build, and without a work directory they take
\* what is called the same in the home directory.
CleanComm(b) ==
    /\ Does(b, "clean_comm")
    /\ SetCwd(Cwd \ {"out"})
    /\ UNCHANGED <<local, archive, kind, sent>>

RmWork(b) ==
    /\ Does(b, "rmWork")
    /\ kind' = "none" /\ work' = {} /\ sent' = {}
    /\ UNCHANGED <<local, archive, home>>

\* A command fails, and the next one follows.
Fails(b) ==
    /\ step[b] # "idle" /\ faults < MaxFaults /\ faults' = faults + 1
    /\ step' = [step EXCEPT ![b] = After(step[b])]
    /\ alone' = [Alone(b) EXCEPT ![b] = FALSE] /\ Calm
    /\ UNCHANGED <<local, archive, runs, remoteVars, vain>>

\* The terminal is closed: rbuilder itself is killed.
Killed(b) ==
    /\ step[b] # "idle" /\ faults < MaxFaults /\ faults' = faults + 1
    /\ step' = [step EXCEPT ![b] = "idle"]
    /\ alone' = [Alone(b) EXCEPT ![b] = FALSE] /\ Calm
    /\ UNCHANGED <<local, archive, runs, remoteVars, vain>>

Next == \E b \in Builders : \/ Start(b) \/ Empty(b) \/ Tar(b) \/ Prepare(b) \/ Scp(b) \/ Untar(b)
                            \/ OtherComm(b) \/ Build(b) \/ RmLocal(b) \/ RmRemote(b)
                            \/ CleanComm(b) \/ RmWork(b) \/ Fails(b) \/ Killed(b)

Spec == Init /\ [][Next]_vars

----------------------------------------------------------------------------
(* Properties. *)

Undisturbed(b) == step[b] = "build_comm" /\ alone[b] /\ kind = "dir"

\* What the build commands of a run find that nobody and nothing has disturbed,
\* whatever earlier runs have left, unless a file lies where the work directory
\* should be (main.c:43-58): of the files that are not hidden those the user has
\* now and no others; of the hidden ones none of the user's, for ./* leaves them
\* at home, and those that earlier builds have made, for ./* does not remove
\* them either.
FreshBuild ==
    \A b \in Builders : Undisturbed(b) =>
        /\ work \ Hidden = (local[b] \ Hidden) \cup {"temp.tar"}
        /\ work \cap Hidden \subseteq {".cache"}

\* README.md:16 of src/project: all files and directories of the current
\* directory are transferred to the work directory.
AllTransferred == \A b \in Builders : Undisturbed(b) => local[b] \subseteq work

\* As long as no run has failed or met another one, the home directory keeps
\* its files, though half the commands would run there if a cd failed, with one
\* exception that needs no accident: a clean with no work directory (a second
\* one, or one before any build) runs its commands there and takes what they
\* remove, and nothing else.  No file takes the place of the work directory, and
\* when everyone is done nothing that served only the transfer remains on either
\* side (main.c:28-67, 101-111).  One clean of another user between the mkdir
\* and the scp is enough to lose all three.
HostKept ==
    calm =>
        /\ home = HomeFiles \/ (vain /\ home = HomeFiles \ {"out"})
        /\ kind # "file"
        /\ (\A b \in Builders : step[b] = "idle") =>
             /\ \A b \in Builders : archive[b] = NoTar
             /\ {"temp.tar", "rbuilder.conf"} \cap work = {}

=============================================================================
