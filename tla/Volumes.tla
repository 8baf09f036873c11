------------------------------ MODULE Volumes ------------------------------
(***************************************************************************)
(* The picker's list of volumes: list_volumes of linux/, macos/ and         *)
(* windows/src/volumes.rs, each call on a blocking thread of the server's,  *)
(* and what the page makes of the answers (wasm/src/app/controls.rs).       *)
(*                                                                         *)
(* A machine has its mounts in the order they are made, the first of them   *)
(* at the start, and on macOS the entries of /Volumes.  On Linux a mount    *)
(* that others answer for is asked on a thread of its own, which may never  *)
(* return.  Names and sizes are left out.                                   *)
(***************************************************************************)
EXTENDS Naturals, Sequences, FiniteSets, SequencesExt

CONSTANTS
    Machines,
    Request,    \* bound: the times the picker is shown
    Spare       \* the mounts mount_table makes room for besides those it counted

VARIABLES
    machine,    \* [platform, mounts, first, entries]
    mounted,    \* how many of its mounts there are
    probing,    \* PROBING
    threads,    \* the probes: [list, line, stage]
    lists,      \* the calls of list_volumes
    waiting,    \* the page's fetches
    grid        \* View of the picker: a message, or the mount points it offers

volumesVars == <<machine, mounted, probing, threads, lists, waiting, grid>>

Mounts == SubSeq(machine.mounts, 1, mounted)

-----------------------------------------------------------------------------
(* Linux.                                                                   *)
LocalFilesystems == {"ext4", "btrfs", "zfs", "squashfs", "overlay", "vfat"}

(* is_volume: a mount of a device's or a pool's, or the root; all of it, or *)
(* a btrfs subvolume.                                                       *)
IsVolume(m) ==
    /\ m.device \/ (m.point = "/" /\ m.fs # "rootfs") \/ m.fs = "zfs"
    /\ m.whole \/ m.fs = "btrfs"
    /\ ~m.snap

(* usage: nothing of a file, or when the call fails.                        *)
Usage(m) == IF m.dir /\ m.answers = "ok" THEN "some" ELSE "nothing"

NoList == [pc |-> "none", table |-> <<>>, rx |-> <<>>, next |-> 1, expired |-> FALSE,
           room |-> 0, shown |-> {}]

Now(l, pc) == [lists EXCEPT ![l].pc = pc]
Asked(th) == lists[th.list].table[th.line]
Asking == {th \in threads : th.stage = "asking"}

(* mountinfo is read, or can't be.                                          *)
ReadMounts(l) ==
    /\ machine.platform = "linux" /\ lists[l].pc = "called"
    /\ \/ lists' = Now(l, "done")
       \/ lists' = [lists EXCEPT ![l].pc = "asking", ![l].table = SelectSeq(Mounts, IsVolume)]
    /\ UNCHANGED <<machine, mounted, probing, threads, waiting, grid>>

(* A local mount is asked here, another on a thread unless one is stuck on  *)
(* it still.  Mutant: another thread each time.                             *)
AskAgain(l, m) ==
    /\ lists' = [lists EXCEPT ![l].rx = Append(@, "open")]
    /\ probing' = probing \cup {m.point}
    /\ threads' = threads \cup {[list |-> l, line |-> Len(lists[l].rx) + 1, stage |-> "asking"]}

AskOther(l, m) ==
    IF m.point \in probing
    THEN /\ lists' = [lists EXCEPT ![l].rx = Append(@, "dropped")]
         /\ UNCHANGED <<probing, threads>>
    ELSE /\ lists' = [lists EXCEPT ![l].rx = Append(@, "open")]
         /\ probing' = probing \cup {m.point}
         /\ threads' = threads \cup {[list |-> l, line |-> Len(lists[l].rx) + 1, stage |-> "asking"]}

Ask(l) ==
    LET line == Len(lists[l].rx) + 1
        m == lists[l].table[line]
    IN  /\ lists[l].pc = "asking"
        /\ IF line > Len(lists[l].table)
           THEN lists' = Now(l, "receiving") /\ UNCHANGED <<probing, threads>>
           ELSE IF m.fs \in LocalFilesystems
           THEN lists' = [lists EXCEPT ![l].rx = Append(@, Usage(m))] /\ UNCHANGED <<probing, threads>>
           ELSE AskOther(l, m)
        /\ UNCHANGED <<machine, mounted, waiting, grid>>

(* PROBE_TIMEOUT is up.                                                     *)
Expire(l) ==
    /\ lists[l].pc = "receiving" /\ ~lists[l].expired
    /\ lists' = [lists EXCEPT ![l].expired = TRUE]
    /\ UNCHANGED <<machine, mounted, probing, threads, waiting, grid>>

(* recv_timeout takes what is there even when no time is left.  Mutants:    *)
(* the list ends at the first mount without an answer; it waits for each.   *)
ReceiveFirst(l, rx) ==
    /\ rx = "open" => lists[l].expired
    /\ lists' = IF rx = "some"
                THEN [lists EXCEPT ![l].next = @ + 1, ![l].shown = @ \cup {lists[l].next}]
                ELSE Now(l, "done")

ReceiveAll(l, rx) ==
    /\ rx # "open"
    /\ lists' = [lists EXCEPT ![l].next = @ + 1,
                              ![l].shown = IF rx = "some" THEN @ \cup {lists[l].next} ELSE @]

ReceiveNext(l, rx) ==
    /\ rx = "open" => lists[l].expired
    /\ lists' = [lists EXCEPT ![l].next = @ + 1,
                              ![l].shown = IF rx = "some" THEN @ \cup {lists[l].next} ELSE @]

Receive(l) ==
    /\ lists[l].pc = "receiving"
    /\ IF lists[l].next > Len(lists[l].rx) THEN lists' = Now(l, "done")
       ELSE ReceiveNext(l, lists[l].rx[lists[l].next])
    /\ UNCHANGED <<machine, mounted, probing, threads, waiting, grid>>

(* A probe's call returns, if its mount answers at all; its thread lets     *)
(* others ask again, and only then sends to a list that may have ended.     *)
ProbeReturns(th) ==
    /\ th \in Asking /\ Asked(th).answers # "never"
    /\ probing' = probing \ {Asked(th).point}
    /\ threads' = (threads \ {th}) \cup {[th EXCEPT !.stage = "sending"]}
    /\ UNCHANGED <<machine, mounted, lists, waiting, grid>>

ProbeSends(th) ==
    /\ th \in threads \ Asking
    /\ threads' = threads \ {th}
    /\ lists' = [lists EXCEPT ![th.list].rx[th.line] = Usage(Asked(th))]
    /\ UNCHANGED <<machine, mounted, probing, waiting, grid>>

-----------------------------------------------------------------------------
(* macOS: the mount table, read into room made for those counted and a few  *)
(* more, until it doesn't fill it; then those entries of /Volumes that are  *)
(* mount points, or absolute links to one.                                  *)
CountMounts(l) ==
    /\ machine.platform = "macos" /\ lists[l].pc = "called"
    /\ lists' = [lists EXCEPT ![l].pc = "counted", ![l].room = mounted + Spare]
    /\ UNCHANGED <<machine, mounted, probing, threads, waiting, grid>>

FillMounts(l) ==
    /\ lists[l].pc = "counted"
    /\ lists' = IF mounted < lists[l].room
                THEN [lists EXCEPT ![l].pc = "filled", ![l].table = Mounts]
                ELSE Now(l, "called")
    /\ UNCHANGED <<machine, mounted, probing, threads, waiting, grid>>

Offered(table) ==
    {i \in 1 .. Len(table) :
        \E e \in machine.entries : e.link # "relative" /\ e.path = table[i].point}

ReadEntriesOfVolumes(l) ==
    /\ lists[l].pc = "filled"
    /\ lists' = [lists EXCEPT ![l].pc = "done", ![l].shown = Offered(lists[l].table)]
    /\ UNCHANGED <<machine, mounted, probing, threads, waiting, grid>>

(* Windows: the fixed and removable drives that say how full they are.      *)
AskDrives(l) ==
    /\ machine.platform = "windows" /\ lists[l].pc = "called"
    /\ lists' = [lists EXCEPT
                   ![l].pc = "done", ![l].table = Mounts,
                   ![l].shown = {i \in 1 .. mounted : /\ Mounts[i].fs \in {"fixed", "removable"}
                                                      /\ Mounts[i].answers = "ok"}]
    /\ UNCHANGED <<machine, mounted, probing, threads, waiting, grid>>

-----------------------------------------------------------------------------
(* The page.  show_picker and load_volumes.                                 *)
ShowPicker(l) ==
    /\ lists[l].pc = "none"
    /\ lists' = Now(l, "called")
    /\ waiting' = waiting \cup {l}
    /\ grid' = {"Loading volumes..."}
    /\ UNCHANGED <<machine, mounted, probing, threads>>

PointsOf(l) == {lists[l].table[i].point : i \in lists[l].shown}

(* apply_volume_result, of an answer or of a fetch that failed: whichever   *)
(* comes last stays.                                                        *)
ApplyVolumes(l) ==
    /\ l \in waiting
    /\ waiting' = waiting \ {l}
    /\ \/ /\ lists[l].pc = "done"
          /\ grid' = IF lists[l].shown = {} THEN {"No volumes found"} ELSE PointsOf(l)
       \/ grid' = {"Failed to load volumes"}
    /\ UNCHANGED <<machine, mounted, probing, threads, lists>>

MountOne ==
    /\ mounted < Len(machine.mounts)
    /\ mounted' = mounted + 1
    /\ UNCHANGED <<machine, probing, threads, lists, waiting, grid>>

VolumesInit ==
    /\ machine \in Machines
    /\ mounted = machine.first
    /\ probing = {} /\ threads = {}
    /\ lists = [l \in Request |-> NoList]
    /\ waiting = {} /\ grid = {}

ListStep(l) ==
    \/ ReadMounts(l) \/ Ask(l) \/ Expire(l) \/ Receive(l)
    \/ CountMounts(l) \/ FillMounts(l) \/ ReadEntriesOfVolumes(l)
    \/ AskDrives(l)

VolumesNext ==
    \/ \E l \in Request : ListStep(l) \/ ShowPicker(l) \/ ApplyVolumes(l)
    \/ \E th \in threads : ProbeReturns(th) \/ ProbeSends(th)
    \/ MountOne

VolumesSpec == VolumesInit /\ [][VolumesNext]_volumesVars

-----------------------------------------------------------------------------
(* However often the picker is shown, and whatever mounts never answer,     *)
(* one thread at most is stuck on a mount point (PROBING).                  *)
ProbesOnce ==
    /\ \A t1, t2 \in Asking : Asked(t1).point = Asked(t2).point => t1 = t2
    /\ probing = {Asked(th).point : th \in Asking}

(* A mount that doesn't answer keeps none off the list but itself: those    *)
(* asked inline are on it, and those that answered when no time ran out,    *)
(* unless another list was still asking them (list_volumes).                *)
ListsWhatAnswers ==
    \A l \in Request :
        lists[l].pc = "done" =>
            \A i \in 1 .. Len(lists[l].rx) :
                LET m == lists[l].table[i]
                IN  /\ i \in lists[l].shown => Usage(m) = "some"
                    /\ /\ Usage(m) = "some"
                       /\ m.fs \in LocalFilesystems \/ (~lists[l].expired /\ lists[l].rx[i] # "dropped")
                       => i \in lists[l].shown

(* A list that is asked for comes, though mounts never answer.              *)
ListEnds == \A l \in Request : lists[l].pc = "called" ~> lists[l].pc = "done"
=============================================================================
