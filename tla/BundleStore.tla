---------------------------- MODULE BundleStore ----------------------------
(***************************************************************************)
(* What the editing commands of apple-re promise about the IPA files on     *)
(* disk: each is an atomic edit.  A file is what opening it gives: a VFS,   *)
(* or nothing (no such file, not an archive, no .app in it).  An edit       *)
(* replaces what the output file holds by the input with one name set or    *)
(* removed; a command that is interrupted may lose the output file; nothing *)
(* else ever changes.                                                       *)
(***************************************************************************)
EXTENDS IpaEdits

VARIABLE store      \* [Ipas -> {} or {a VFS}]

\* What opening the file that holds these files gives.
Reopened(files) == IF FindAppPrefix(files) = 0 THEN {} ELSE {files}

Edit(c) ==
    \E files \in store[c.ipa] :
        /\ Acceptable(c, files)
        /\ store' = [store EXCEPT ![c.out] = Reopened(Edited(c, files))]

\* The write was cut short: only the output file of an acceptable command is
\* at risk.
Lose(c) ==
    \E files \in store[c.ipa] :
        /\ Acceptable(c, files)
        /\ store' = [store EXCEPT ![c.out] = {}]

StoreType ==
    /\ DOMAIN store = Ipas
    /\ \A f \in Ipas : \A files \in store[f] : IsVfs(files)

\* An edit that changes nothing is a stuttering step.
Next ==
    /\ store' # store
    /\ \E c \in Command : Edit(c) \/ Lose(c)

Spec == StoreType /\ [][Next]_store
=============================================================================
