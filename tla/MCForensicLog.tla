--------------------------- MODULE MCForensicLog ---------------------------
(***************************************************************************)
(* ForensicLog with the two backups the code keeps and files of two short  *)
(* lines; a line of the second size fits in no file.                       *)
(***************************************************************************)
EXTENDS ForensicLog

MCSizes == {1, 3}
=============================================================================
