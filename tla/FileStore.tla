------------------------------ MODULE FileStore ------------------------------
(***************************************************************************)
(* What an RT-11 volume promises whoever puts, removes and renames files on *)
(* it (the comments of disk/Build.hpp): names, each with its blocks and its *)
(* protection, changed by one request at a time and only as it says;        *)
(* gathering free space, enlarging or fencing a volume changes no file.  A  *)
(* request that throws changes nothing.                                     *)
(***************************************************************************)
EXTENDS Integers, Sequences

CONSTANTS
  Names,    \* RT-11 names
  Block     \* what a block may hold

VARIABLES
  files,    \* the files, a set of File with no two of one name
  asked     \* the last request that was granted

File == [name : Names, data : Seq(Block), prot : BOOLEAN]

Named(fs, n) == {f \in fs : f.name = n}
Changed(fs, n, change(_)) == (fs \ Named(fs, n)) \cup {change(f) : f \in Named(fs, n)}

(* When a request may be granted, and the files it then leaves.             *)
Grantable(fs, r) ==
  CASE r.op = "put"      -> \A f \in Named(fs, r.name) : ~f.prot
    [] r.op = "remove"   -> Named(fs, r.name) # {}
    [] r.op = "protect"  -> Named(fs, r.name) # {}
    [] r.op = "rename"   -> Named(fs, r.name) # {} /\ Named(fs, r.to) = {}
    [] r.op = "undelete" -> Named(fs, r.name) = {}
    [] OTHER             -> TRUE

Granted(fs, r) ==
  LET new(prot) == [name |-> r.name, data |-> r.data, prot |-> prot]
  IN CASE r.op = "put"      -> (fs \ Named(fs, r.name)) \cup {new(r.prot)}
       [] r.op = "remove"   -> fs \ Named(fs, r.name)
       [] r.op = "protect"  -> Changed(fs, r.name, LAMBDA f : [f EXCEPT !.prot = r.prot])
       [] r.op = "rename"   -> Changed(fs, r.name, LAMBDA f : [f EXCEPT !.name = r.to])
       [] r.op = "undelete" -> fs \cup {new(FALSE)}
       [] r.op = "init"     -> {}
       [] OTHER             -> fs

Init == files = {}

Next ==
  \E fs \in {files}, r \in {asked'} : Grantable(fs, r) /\ files' = Granted(fs, r)

Spec == Init /\ [][Next]_<<files, asked>>

=============================================================================
