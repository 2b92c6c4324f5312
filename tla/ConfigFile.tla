----------------------------- MODULE ConfigFile -----------------------------
(***************************************************************************)
(* What ProFTPD's parser is promised of a configuration in a database: one *)
(* parse sees one file.  Its lines are those of a single read made during  *)
(* this parse; edits made later do not show; each line is delivered once,  *)
(* in order; nobody is told that the file ends before all lines are; and   *)
(* the next parse reads anew.                                              *)
(***************************************************************************)
EXTENDS Naturals, Sequences

CONSTANT Readable(_)  \* what a read of a version of the database may deliver

VARIABLES
  ver,      \* the version of the database
  serving,  \* the daemon serves, and does not parse
  taken,    \* this parse has its file
  file,     \* the lines of the file
  given,    \* those delivered
  atEnd     \* a user of the file was told that it ends

vars == <<ver, serving, taken, file, given, atEnd>>

Init ==
  /\ ver = 1 /\ ~serving
  /\ taken = FALSE /\ file = <<>> /\ given = <<>> /\ atEnd = FALSE

Take ==
  /\ ~serving /\ ~taken
  /\ taken' = TRUE /\ file' \in Readable(ver)
  /\ UNCHANGED <<ver, serving, given, atEnd>>

Deliver ==
  /\ taken /\ Len(given) < Len(file)
  /\ given' = Append(given, file[Len(given) + 1])
  /\ UNCHANGED <<ver, serving, taken, file, atEnd>>

TellEnd ==
  /\ taken /\ given = file
  /\ atEnd' = TRUE
  /\ UNCHANGED <<ver, serving, taken, file, given>>

Leave ==
  /\ atEnd /\ atEnd' = FALSE
  /\ UNCHANGED <<ver, serving, taken, file, given>>

Finish ==
  /\ ~serving /\ ~atEnd
  /\ serving' = TRUE
  /\ taken' = FALSE /\ file' = <<>> /\ given' = <<>>
  /\ UNCHANGED <<ver, atEnd>>

Reload ==
  /\ serving /\ serving' = FALSE
  /\ UNCHANGED <<ver, taken, file, given, atEnd>>

Edit ==
  /\ ver' = ver + 1
  /\ UNCHANGED <<serving, taken, file, given, atEnd>>

Next == Take \/ Deliver \/ TellEnd \/ Leave \/ Finish \/ Reload \/ Edit

Spec == Init /\ [][Next]_vars
=============================================================================
