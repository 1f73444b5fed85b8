--------------------------------- MODULE RomFs ---------------------------------
(***************************************************************************)
(* The ROM file system of an image: mkfs.py writes it as an array of bytes *)
(* at build time, src/romfs.c reads it on the board, through descriptors   *)
(* (open, read, seek, close) and as a directory (shell_ls).                *)
(*                                                                         *)
(* Scaled: a byte has Base values, a name MaxName bytes.  A name is a      *)
(* sequence of letters, of which c and c + Case are the same one in lower  *)
(* and in upper case.  The files are those mkfs packs, after its compile   *)
(* and compress modes.  Left out: devman, which finds the device of a path *)
(* and passes the call on.                                                 *)
(***************************************************************************)
EXTENDS Integers, Sequences, FiniteSetsExt

CONSTANTS
  Lists,    \* what mkfs may be given: sequences of files
  Asked,    \* the names programs open
  Base,     \* 256
  Case,     \* what tells a capital letter
  MaxName,  \* MAX_FNAME_LENGTH, and maxlen of mkfs.py
  MaxFds,   \* ROMFS_MAX_FDS
  Chunks,   \* how much is read at once
  Offsets   \* the offsets of seeks

\* a file has a name, of some letters, and bytes
Files == [name : Seq(Nat \ {0}) \ {<<>>}, data : Seq(0..(Base - 1))]

ASSUME RomAssumption ==
  /\ Lists \subseteq Seq(Files)
  /\ Base \in Nat \ {0} /\ Case \in Nat \ {0} /\ MaxName \in Nat \ {0} /\ MaxFds \in Nat \ {0}
  /\ Chunks \subseteq Nat /\ Offsets \subseteq Int

VARIABLES
  list,   \* what mkfs was given
  image,  \* romfiles_fs
  table,  \* romfs_fd_table
  num,    \* romfs_num_fd
  view,   \* history: the open files of the program, each with its descriptor (0: not
          \* open), the name it was opened by, and where the program is in it
  last    \* history: the last call and what it returned

vars == <<list, image, table, num, view, last>>

Fds == 1..MaxFds
Smaller(m, n) == IF m < n THEN m ELSE n

-----------------------------------------------------------------------------
(* mkfs                                                                    *)

\* a file: its name and a 0, its size as two bytes, low byte first, its data;
\* mutant: the bytes of the size swapped
EntrySwapped(f) == f.name \o <<0, (Len(f.data) \div Base) % Base, Len(f.data) % Base>> \o f.data
Entry(f) == f.name \o <<0, Len(f.data) % Base, (Len(f.data) \div Base) % Base>> \o f.data

\* files with long names are skipped; the end is an empty name
Kept(f) == Len(f.name) <= MaxName
Mkfs(files) ==
  LET upto[i \in 0..Len(files)] ==
        IF i = 0 THEN <<>>
        ELSE upto[i - 1] \o (IF Kept(files[i]) THEN Entry(files[i]) ELSE <<>>)
  IN upto[Len(files)] \o <<0>>

-----------------------------------------------------------------------------
(* romfs.c; addresses begin with 0, what lies beyond the array is junk     *)

At(addr) == IF addr < Len(image) THEN image[addr + 1] ELSE Base - 1

SizeAt(addr) == At(addr) + Base * At(addr + 1)

\* the length of the name at addr: read up to a 0, or up to MaxName bytes
NameLen(addr) ==
  LET zeros == {j \in 0..(MaxName - 1) : At(addr + j) = 0} IN
  IF zeros = {} THEN MaxName ELSE Min(zeros)

NameAt(addr) == [j \in 1..NameLen(addr) |-> At(addr + j - 1)]

Lower(c) == c % Case
\* strncasecmp of MaxName letters
SameName(a, b) ==
  LET Cut(s) == [j \in 1..Smaller(Len(s), MaxName) |-> Lower(s[j])] IN Cut(a) = Cut(b)

\* the addresses of the entries romfs_open_file passes, and the first with that name
NextEntry(addr) == addr + NameLen(addr) + 3 + SizeAt(addr + NameLen(addr) + 1)
NoEntry == -1
Find(name) ==
  LET find[addr \in 0..Len(image)] ==
        IF NameLen(addr) = 0 THEN NoEntry
        ELSE IF SameName(name, NameAt(addr)) THEN addr
        ELSE IF NextEntry(addr) <= Len(image) THEN find[NextEntry(addr)] ELSE NoEntry
  IN find[0]

\* romfs_get_dir_entry, called until it returns 0: the names and sizes shell_ls prints
Directory ==
  LET dir[addr \in 0..Len(image)] ==
        IF At(addr) = 0 THEN <<>>
        ELSE LET ends == Min({j \in addr..(Len(image) + 1) : j >= Len(image) \/ At(j) = 0})
                 next == ends + 3 + SizeAt(ends + 1)
             IN <<[name |-> [j \in 1..(ends - addr) |-> At(addr + j - 1)],
                   size |-> SizeAt(ends + 1)]>>
                \o (IF next <= Len(image) THEN dir[next] ELSE <<>>)
  IN dir[0]

Free    == [base |-> 0, offset |-> 0, size |-> 0, used |-> FALSE]
NoView  == [fd |-> 0, name |-> <<>>, pos |-> 0]
NoCall  == [call |-> "none", fd |-> 0, name |-> <<>>, from |-> 0, n |-> 0, got |-> <<>>]

Init ==
  /\ list \in Lists /\ image = Mkfs(list)
  /\ table = [fd \in Fds |-> Free] /\ num = 0
  /\ view = [h \in Fds |-> NoView] /\ last = NoCall

\* mutant: the slot after the last one opened
SlotByCount == num + 1
EmptySlot   == Min({fd \in Fds : ~table[fd].used})

\* romfs_open_r
Open(name) ==
  LET addr == Find(name)
      data == addr + NameLen(addr) + 3
  IN IF num = MaxFds \/ addr = NoEntry
     THEN /\ last' = [NoCall EXCEPT !.call = "open", !.name = name, !.n = num]
          /\ UNCHANGED <<list, image, table, num, view>>
     ELSE LET fd == EmptySlot
              h  == Min({g \in Fds : view[g].fd = 0}) IN
          /\ table' = [table EXCEPT ![fd] =
               [base |-> data, offset |-> 0, size |-> SizeAt(data - 2), used |-> TRUE]]
          /\ num' = num + 1
          /\ view' = [view EXCEPT ![h] = [fd |-> fd, name |-> name, pos |-> 0]]
          /\ last' = [NoCall EXCEPT !.call = "open", !.name = name, !.fd = fd, !.n = num]
          /\ UNCHANGED <<list, image>>

\* romfs_read_r
Read(h, n) ==
  LET fd  == view[h].fd
      e   == table[fd]
      len == Smaller(n, e.size - e.offset)
      got == [j \in 1..len |-> At(e.base + e.offset + j - 1)] IN
  /\ fd # 0
  /\ table' = [table EXCEPT ![fd].offset = @ + len]
  /\ view' = [view EXCEPT ![h].pos = @ + len]
  /\ last' = [call |-> "read", fd |-> fd, name |-> view[h].name, from |-> view[h].pos,
              n |-> n, got |-> got]
  /\ UNCHANGED <<list, image, num>>

\* romfs_ioctl_r; a position before the beginning is a large unsigned one
Seek(h, dir, off) ==
  LET fd  == view[h].fd
      e   == table[fd]
      new == off + CASE dir = "set" -> 0 [] dir = "cur" -> e.offset [] dir = "end" -> e.size IN
  /\ fd # 0
  /\ IF new \in 0..e.size
     THEN /\ table' = [table EXCEPT ![fd].offset = new]
          /\ view' = [view EXCEPT ![h].pos = new]
     ELSE UNCHANGED <<table, view>>
  /\ last' = NoCall
  /\ UNCHANGED <<list, image, num>>

\* romfs_close_r
Close(h) ==
  /\ view[h].fd # 0
  /\ table' = [table EXCEPT ![view[h].fd] = Free]
  /\ num' = num - 1 /\ view' = [view EXCEPT ![h] = NoView] /\ last' = NoCall
  /\ UNCHANGED <<list, image>>

Next ==
  \/ \E name \in Asked : Open(name)
  \/ \E h \in Fds : \/ \E n \in Chunks : Read(h, n)
                    \/ \E dir \in {"set", "cur", "end"}, off \in Offsets : Seek(h, dir, off)
                    \/ Close(h)

Spec == Init /\ [][Next]_vars

-----------------------------------------------------------------------------
(* Properties                                                              *)

\* Lists the format can hold: sizes of two bytes, names that differ in more than the
\* case of their letters.  mkfs.py checks neither.
Packed == {i \in DOMAIN list : Kept(list[i])}
Holds  == /\ \A i \in Packed : Len(list[i].data) < Base * Base
          /\ \A i, j \in Packed : SameName(list[i].name, list[j].name) => i = j

\* The board opens every file that was packed, and only those, and reads through each
\* open file the bytes of that file from where it left it, whatever others are
\* opened, moved and closed meanwhile.
ReadsBack ==
  Holds /\ Len(last.name) <= MaxName =>
    LET found == {i \in Packed : SameName(list[i].name, last.name)} IN
    /\ last.call = "open" => (last.fd # 0 <=> found # {} /\ last.n < MaxFds)
    /\ last.call = "read" => \A i \in found :
         last.got = SubSeq(list[i].data, last.from + 1,
                           Smaller(last.from + last.n, Len(list[i].data)))

\* the names and sizes of the packed files, in the order mkfs was given them
Listing ==
  LET upto[i \in 0..Len(list)] ==
        IF i = 0 THEN <<>>
        ELSE upto[i - 1] \o (IF i \in Packed
                             THEN <<[name |-> list[i].name, size |-> Len(list[i].data)]>>
                             ELSE <<>>)
  IN upto[Len(list)]

\* ls shows every packed file once with its size, in the order of the list; this
\* reader of the image is not the one that opens files.
ListsAll == Holds => Directory = Listing
=============================================================================
