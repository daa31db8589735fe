------------------------------ MODULE Ramdisk ------------------------------
(***************************************************************************)
(* The end of start-up: HandleModuleObjects of kernel/src/obj/mod.cpp maps *)
(* the modules the bootloader has loaded, and TarObject of obj/tar.cpp     *)
(* lists the files of the first, a tape archive, without moving them.      *)
(* Memory is counted in bytes.  Characters are numbers, as in ASCII.       *)
(***************************************************************************)
EXTENDS Vectors, Integers

CONSTANTS
  PageBytes,   \* 4096
  Block,       \* 512: headers and contents begin at multiples of it
  NameMax,     \* 100: length of a header's FileName
  Digits,      \* 11: octal digits of a header's Size
  Responses,   \* what the bootloader may answer: sequences of modules
  Paths        \* what Get may be asked for

NULL == 0
NUL == 0
Slash == 47

Page(a) == a \div PageBytes
Pages(a, n) == { Page(x) : x \in a .. a + n - 1 }
AlignUp(value, boundary) == ((value + (boundary - 1)) \div boundary) * boundary

(* A name as it lies in a header: up to NameMax characters, NULs behind. *)
NameField(str) == [n \in 1 .. NameMax |-> IF n <= Len(str) THEN str[n] ELSE NUL]

(* A number's digits, the most significant first: `part` is what the first
   of them are worth. *)
IsOctal(numeral, number) ==
  \E part \in [0 .. Digits -> 0 .. number] :
    /\ part[0] = 0 /\ part[Digits] = number
    /\ \A n \in 1 .. Digits : part[n] = 8 * part[n - 1] + numeral[n]

Blocks(size) == (size \div Block) + (IF size % Block = 0 THEN 0 ELSE 1)

(* What tar has put into an archive: a file's path, which ends with a slash
   in its header if it is a directory, its size and its type. *)
File == [path : Seq(Nat \ {NUL}), slash : BOOLEAN, size : Nat, type : Nat]
Recorded(f) == IF f.slash THEN Append(f.path, Slash) ELSE f.path

(* Where the files of an archive are: each has a header and its contents, in
   whole blocks; behind the last there is a block of zeros. *)
LaidOut(mod) ==
  LET last == Len(mod.files) + 1 IN
  /\ mod.place \in [1 .. last -> Nat] /\ mod.place[1] = mod.base
  /\ \A n \in 1 .. Len(mod.files) :
        mod.place[n + 1] = mod.place[n] + Block * (1 + Blocks(mod.files[n].size))
  /\ mod.place[last] + Block <= mod.base + mod.size
  /\ DOMAIN mod.header = { mod.place[n] : n \in 1 .. last - 1 }
  /\ Len(mod.files) < 65536   \* or size() of the list wraps

(* What is in their headers. *)
Written(f, h) ==
  /\ f.path # << >> /\ f.path[Len(f.path)] # Slash /\ Len(Recorded(f)) <= NameMax
  /\ h = [name |-> NameField(Recorded(f)), numeral |-> h.numeral, type |-> f.type]
  /\ h.numeral \in [1 .. Digits -> 0 .. 7] /\ IsOctal(h.numeral, f.size)

(* The bootloader loads a module to pages of its own.  It may be anything;
   it is an archive if it has the magic of one. *)
ModuleOK(mod) ==
  /\ mod.base \in Nat \ {NULL} /\ mod.base % PageBytes = 0 /\ mod.size \in Nat \ {0}
  /\ mod.ustar \in BOOLEAN /\ mod.files \in Seq(File)
  /\ mod.ustar => /\ LaidOut(mod)
                  /\ \A n \in DOMAIN mod.files : Written(mod.files[n], mod.header[mod.place[n]])

(* There is no response, here << >>, or it lists one module or more. *)
RamdiskOK ==
  /\ Block \in Nat \ {0} /\ PageBytes \in Nat \ {0} /\ PageBytes % Block = 0
  /\ NameMax \in Nat \ {0} /\ Digits \in Nat
  /\ \A r \in Responses : /\ r \in Seq({ r[n] : n \in DOMAIN r })
                          /\ \A n \in 1 .. Len(r) : ModuleOK(r[n])
  /\ \A p \in Paths : p \in Seq(Nat \ {NUL}) /\ Len(p) <= NameMax

VARIABLES
  response,   \* module_response
  stage,      \* where the boot processor is
  m,          \* which module HandleModuleObjects is at, from 0
  i,          \* how much of it is mapped
  mapped,     \* pages mapped
  touched,    \* pages of modules that were accessed
  Modules,    \* VirtualAddress of the modules
  Files,      \* of FirstRamdisk
  ram,        \* the headers of the first module
  Header,     \* the header TarObject is at
  j, count, ret   \* of DecodeTarNumeral

decoding == << j, count, ret >>
vars == << response, stage, m, i, mapped, touched, Modules, Files, ram, Header, decoding >>

-----------------------------------------------------------------------------
(* libs/string.c; the index runs from 0, sequences from 1 *)

strnlen(str, n) ==
  CHOOSE k \in 0 .. n : (k = n \/ str[k + 1] = NUL) /\ \A l \in 0 .. k - 1 : str[l + 1] # NUL

(* Mutant: the comparison stops where the second string ends. *)
strncmp_Prefix(str1, str2, n) ==
  LET Stops(k) == k = n \/ str2[k + 1] = NUL \/ str1[k + 1] # str2[k + 1]
      stop == CHOOSE k \in 0 .. n : Stops(k) /\ \A l \in 0 .. k - 1 : ~Stops(l)
  IN IF stop = n \/ str2[stop + 1] = NUL THEN 0 ELSE str1[stop + 1] - str2[stop + 1]

strncmp(str1, str2, n) ==
  LET Stops(k) == k = n \/ str1[k + 1] = NUL \/ str1[k + 1] # str2[k + 1]
      stop == CHOOSE k \in 0 .. n : Stops(k) /\ \A l \in 0 .. k - 1 : ~Stops(l)
  IN IF stop = n THEN 0 ELSE str1[stop + 1] - str2[stop + 1]

-----------------------------------------------------------------------------
Init ==
  /\ response = << >>
  /\ stage = "wait"
  /\ m = 0 /\ i = 0
  /\ mapped = {} /\ touched = {}
  /\ Modules = NewVector /\ Files = NewVector
  /\ ram = << >> /\ Header = NULL
  /\ j = 0 /\ count = 1 /\ ret = 0

Goto(label) == stage' = label
Access(ps) == touched' = touched \union ps

(* HandleModuleObjects is called; this is where the response matters. *)
Begin ==
  /\ stage = "wait"
  /\ response' \in Responses
  /\ Goto(IF response' = << >> THEN "end" ELSE "map")
  /\ ram' = IF response' # << >> /\ response'[1].ustar THEN response'[1].header ELSE << >>
  /\ UNCHANGED << m, i, mapped, touched, Modules, Files, Header, decoding >>

Current == response[m + 1]

MapPage ==
  /\ stage = "map" /\ m < Len(response)
  /\ i < Current.size
  /\ mapped' = mapped \union {Page(Current.base + i)}
  /\ i' = i + PageBytes
  /\ UNCHANGED << response, stage, m, touched, Modules, Files, ram, Header, decoding >>

(* Mutant: a page that is only partly used may be left out. *)
ModuleMapped_Early ==
  /\ stage = "map" /\ m < Len(response)
  /\ i + PageBytes > Current.size
  /\ Modules' = PushBack(Modules, Current.base)
  /\ m' = m + 1 /\ i' = 0
  /\ UNCHANGED << response, stage, mapped, touched, Files, ram, Header, decoding >>

ModuleMapped ==
  /\ stage = "map" /\ m < Len(response)
  /\ i >= Current.size
  /\ Modules' = PushBack(Modules, Current.base)
  /\ m' = m + 1 /\ i' = 0
  /\ UNCHANGED << response, stage, mapped, touched, Files, ram, Header, decoding >>

(* The first module becomes the ramdisk: TarObject looks for the magic. *)
OpenRamdisk ==
  /\ stage = "map" /\ m = Len(response)
  /\ IF At(Modules, 0) = NULL
     THEN Goto("end") /\ UNCHANGED << Header, touched >>
     ELSE /\ Header' = At(Modules, 0)
          /\ Access(Pages(Header', Block))
          /\ Goto(IF response[1].ustar THEN "header" ELSE "end")
  /\ UNCHANGED << response, m, i, mapped, Modules, Files, ram, decoding >>
-----------------------------------------------------------------------------
(* TarObject::TarObject *)

(* Behind the last file there are zeros. *)
FirstByte(a) == IF a \in DOMAIN ram THEN ram[a].name[1] ELSE NUL

(* Mutant: the slash is looked for at the end of the field. *)
WithoutSlash_AtEnd(name) ==
  IF name[NameMax] = Slash THEN [name EXCEPT ![NameMax] = NUL] ELSE name

WithoutSlash(name) ==
  LET len == strnlen(name, NameMax)
  IN IF name[len] = Slash THEN [name EXCEPT ![len] = NUL] ELSE name

NextNumeral == j' = Digits /\ count' = 1 /\ ret' = 0

(* The while's test, and a trailing slash is removed. *)
ReadHeader ==
  /\ stage = "header"
  /\ Access(Pages(Header, Block))
  /\ IF FirstByte(Header) = NUL
     THEN Goto("end") /\ UNCHANGED << ram, decoding >>
     ELSE /\ ram' = [ram EXCEPT ![Header].name = WithoutSlash(@)]
          /\ NextNumeral
          /\ Goto("size")
  /\ UNCHANGED << response, m, i, mapped, Modules, Files, Header >>

(* One turn of DecodeTarNumeral's loop; it is called twice for each file. *)
DecodeTarNumeral ==
  /\ stage \in { "size", "next" }
  /\ j > 0
  /\ ret' = ret + ram[Header].numeral[j] * count
  /\ count' = count * 8
  /\ j' = j - 1
  /\ UNCHANGED << response, stage, m, i, mapped, touched, Modules, Files, ram, Header >>

(* The file is entered into the list. *)
PushFile ==
  /\ stage = "size"
  /\ j = 0
  /\ Files' = PushBack(Files, [Path |-> Header, LinksTo |-> NULL, FileSize |-> ret,
                               Type |-> ram[Header].type, FileAddress |-> Header + Block])
  /\ NextNumeral
  /\ Goto("next")
  /\ UNCHANGED << response, m, i, mapped, touched, Modules, ram, Header >>

NextHeader ==
  /\ stage = "next"
  /\ j = 0
  /\ Header' = Header + AlignUp(ret + Block, Block)
  /\ Goto("header")
  /\ UNCHANGED << response, m, i, mapped, touched, Modules, Files, ram, decoding >>

Next == Begin \/ MapPage \/ ModuleMapped \/ OpenRamdisk
        \/ ReadHeader \/ DecodeTarNumeral \/ PushFile \/ NextHeader
-----------------------------------------------------------------------------
(* TarObject::Get, once the list is complete *)

NoFile == [Path |-> NULL, LinksTo |-> NULL, FileSize |-> 0, Type |-> 0, FileAddress |-> NULL]

Get(path) ==
  LET Found(n) == strncmp(ram[At(Files, n).Path].name, Append(path, NUL), NameMax) = 0
      found == { n \in 0 .. Size(Files) - 1 : Found(n) }
  IN IF found = {} THEN NoFile
     ELSE At(Files, CHOOSE n \in found : \A l \in found : n <= l)
-----------------------------------------------------------------------------
(* What the first module contains, if it is an archive. *)
Archived == IF response # << >> /\ response[1].ustar THEN response[1].files ELSE << >>
ContentsOf(n) == response[1].place[n] + Block

(* The list is the archive's: all files, in order, no other, each with the
   path, size and type it has, and where its contents are. *)
FilesRight ==
  stage = "end" =>
    /\ Files.count = Len(Archived)
    /\ \A n \in 1 .. Len(Archived) :
          LET f == Archived[n]
              file == At(Files, n - 1)
          IN /\ ram[file.Path].name = NameField(f.path)
             /\ file.FileSize = f.size /\ file.Type = f.type
             /\ file.FileAddress = ContentsOf(n)

(* The kernel reads modules through pages it has mapped, whatever is in them
   and however they end. *)
ModulesMapped == touched \subseteq mapped

(* Get finds the first file that has the path asked for, and no other: not
   one whose path only begins like it, or is where it begins. *)
GetFindsFirst ==
  stage = "end" =>
    \A p \in Paths :
      LET same == { n \in 1 .. Len(Archived) : Archived[n].path = p }
      IN Get(p).FileAddress = IF same = {} THEN NULL
                              ELSE ContentsOf(CHOOSE n \in same : \A l \in same : n <= l)
=============================================================================
