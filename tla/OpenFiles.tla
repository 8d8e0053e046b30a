----------------------------- MODULE OpenFiles -----------------------------
(***************************************************************************)
(* What the file calls promise a program.  Files have contents, which are  *)
(* replaced as a whole.  A handle open for reading is a place in the       *)
(* contents its file had when it was opened: reads return what follows     *)
(* that place.  Once the file is replaced or removed, nothing is promised  *)
(* of its handles any more.  What is written goes to a buffer that handles *)
(* share.  When the last of them is closed, and never before, it becomes   *)
(* the contents of the file that the buffer's path leads to then.  Only if *)
(* the path leads nowhere or the write fails is it lost; the file is then  *)
(* as it was, or gone.                                                     *)
(***************************************************************************)
EXTENDS Integers, Sequences

CONSTANTS Names, Paths, Procs, Fds, Buffers, None, Cut

Handles == Procs \X Fds

VARIABLES
    where,      \* where[q]: the file that path q leads to now, or None
    files,      \* files[n]: {the contents of file n}, or {}
    handle,     \* handle[h]: [name, bytes, pos]; name None: promises nothing
    buffer,     \* buffer[b]: [path, bytes, by]; by: the handles that share it
    returned,   \* the bytes the last step, if it was a read, returned
    lost        \* the last step failed to write a buffer

Void   == [name |-> None, bytes |-> << >>, pos |-> 0]
Unused == [path |-> None, bytes |-> << >>, by |-> {}]

Init ==
    /\ where \in [Paths -> Names \cup {None}]
    /\ files = [n \in Names |-> {}]
    /\ handle = [h \in Handles |-> Void]
    /\ buffer = [b \in Buffers |-> Unused]
    /\ returned = << >> /\ lost = FALSE

NoneRead == returned' = << >>
NoneLost == lost' = FALSE

\* The current directory changes.
Chdir ==
    /\ where' \in [Paths -> Names \cup {None}]
    /\ NoneRead /\ NoneLost /\ UNCHANGED <<files, handle, buffer>>

Open(h, n) ==
    /\ \E b \in files[n] : handle' = [handle EXCEPT ![h] = [name |-> n, bytes |-> b, pos |-> 0]]
    /\ NoneRead /\ NoneLost /\ UNCHANGED <<where, files, buffer>>

\* Of a long path only the first part is kept.
Create(h, b, q) ==
    /\ buffer[b] = Unused
    /\ buffer' = [buffer EXCEPT ![b] = [path |-> Cut[q], bytes |-> << >>, by |-> {h}]]
    /\ NoneRead /\ NoneLost /\ UNCHANGED <<where, files, handle>>

Read(h) ==
    /\ handle[h].name # None
    /\ \E k \in 0 .. Len(handle[h].bytes) - handle[h].pos :
          /\ returned' = SubSeq(handle[h].bytes, handle[h].pos + 1, handle[h].pos + k)
          /\ handle' = [handle EXCEPT ![h].pos = @ + k]
    /\ NoneLost /\ UNCHANGED <<where, files, buffer>>

\* A place past the end is allowed; there is nothing to read there.
Seek(h) ==
    /\ handle[h].name # None
    /\ handle' = [handle EXCEPT ![h].pos = handle'[h].pos] /\ handle'[h].pos \in Nat
    /\ NoneRead /\ NoneLost /\ UNCHANGED <<where, files, buffer>>

\* What a buffer holds stays in front of what is written to it.
Write(b) ==
    LET kept == Len(buffer[b].bytes)
    IN  /\ buffer[b].by # {}
        /\ buffer' = [buffer EXCEPT ![b].bytes = buffer'[b].bytes]
        /\ kept <= Len(buffer'[b].bytes) /\ SubSeq(buffer'[b].bytes, 1, kept) = buffer[b].bytes
        /\ NoneRead /\ NoneLost /\ UNCHANGED <<where, files, handle>>

\* A handle when the files R have been replaced or removed.
Left(hd, R) == IF hd.name \in R THEN Void ELSE hd

\* A file is written or removed by name.
Replace(n) ==
    /\ files' = [files EXCEPT ![n] = files'[n]]
    /\ handle' = [h \in Handles |-> Left(handle[h], {n})]
    /\ NoneRead /\ NoneLost /\ UNCHANGED <<where, buffer>>

\* The files R change when the buffers in gone have lost their last handle:
\* each is written to the file its path leads to, or one of them is lost.
Committed(gone, R) ==
    LET target(b) == where[buffer[b].path]
    IN  /\ files' = [n \in Names |-> IF n \in R THEN files'[n] ELSE files[n]]
        /\ \/ /\ lost' = FALSE
              /\ R = {target(b) : b \in gone} /\ R \subseteq Names
              /\ \A b \in gone : files'[target(b)] = {buffer[b].bytes}
           \/ /\ lost' = TRUE /\ gone # {}
              /\ R \subseteq {target(b) : b \in gone}
              /\ \A n \in R : files'[n] = {}

\* Process p closes, duplicates or inherits handles.  The buffers whose last
\* handle goes are committed; the others stay as they are, and so do the
\* handles of other processes.
Arrange(p) ==
    LET old  == handle
        new  == handle'
        was  == buffer
        now  == buffer'
        gone == {b \in Buffers : was[b].by # {} /\ now[b].by = {}}
    IN  /\ NoneRead /\ UNCHANGED where
        /\ DOMAIN new = Handles /\ DOMAIN now = Buffers
        /\ \A b \in Buffers :
              IF now[b].by = {} THEN now[b] = Unused
              ELSE /\ now[b].path = was[b].path /\ now[b].bytes = was[b].bytes /\ was[b].by # {}
                   /\ \A h \in Handles : h[1] # p => (h \in now[b].by <=> h \in was[b].by)
        /\ \E R \in SUBSET Names :
              /\ Committed(gone, R)
              /\ \A h \in Handles :
                    \/ new[h] = Left(old[h], R)
                    \/ h[1] = p /\ (new[h] = Void \/ \E g \in Handles : new[h] = Left(old[g], R))

Next ==
    \/ Chdir
    \/ \E p \in Procs : Arrange(p)
    \/ \E h \in Handles, n \in Names : Open(h, n)
    \/ \E h \in Handles, b \in Buffers, q \in Paths : Create(h, b, q)
    \/ \E h \in Handles : Read(h) \/ Seek(h)
    \/ \E b \in Buffers : Write(b)
    \/ \E n \in Names : Replace(n)

Spec == Init /\ [][Next]_<<where, files, handle, buffer, returned, lost>>
=============================================================================
