------------------------------- MODULE MCBoot -------------------------------
(* Machines for TLC.  A page is four units, a header three: tables lie across
   one page boundary or two, or in one page. *)
EXTENDS Boot, TLC, Functions, FiniteSetsExt

T(sig, len) == [sig |-> sig, length |-> len, sum |-> TRUE, entries |-> << >>,
                timer |-> TRUE, ics |-> << >>, offset |-> << >>]
IOApic(b) == [type |-> 1, length |-> 2, base |-> b, source |-> 0, gsi |-> 0]
ISO(s, g) == [type |-> 2, length |-> 2, base |-> 0, source |-> s, gsi |-> g]
Core == [type |-> 0, length |-> 1, base |-> 0, source |-> 0, gsi |-> 0]

Fadt(a) == a :> T("FACP", 5)
Other(a) == a :> T("HPET", 9)
Offset(s, i) == MadtHeader + FoldFunctionOnSet(+, 0, [j \in DOMAIN s |-> s[j].length], 1 .. i - 1)
Madt(a, s) == a :> [T("APIC", Offset(s, Len(s) + 1)) EXCEPT !.ics = s,
                      !.offset = [i \in 1 .. Len(s) + 1 |-> Offset(s, i)]]
Rsdt(a, es) == a :> [T("RSDT", Header + Len(es)) EXCEPT !.entries = es]

Firmware(a, tabs, es) ==
  [rsdt |-> a, lapic |-> 200, table |-> Rsdt(a, es) @@ tabs]

(* Two I/O APICs, overrides before and behind them, one for the keyboard. *)
Full == << ISO(0, 2), Core, IOApic(100), ISO(1, 7), IOApic(120), ISO(5, 5), Core >>
Plain == << Core, IOApic(100), ISO(0, 2) >>

Good == Firmware(6, Other(14) @@ Fadt(25) @@ Madt(35, Full) @@ (60 :> T("FACP", 5)),
                 << 14, 25, 60, 35 >>)
Compact == Firmware(8, Fadt(17) @@ Madt(27, Plain), << 27, 17 >>)

MCFirmwares == {
  Good, Compact,
  [Good EXCEPT !.table[6].sum = FALSE],           \* damaged RSDT
  [Good EXCEPT !.table[25].sum = FALSE],          \* damaged FADT
  [Good EXCEPT !.table[25].timer = FALSE],        \* no usable timer
  Firmware(6, Other(14) @@ Fadt(25), << 25, 14 >>),     \* no MADT
  Firmware(6, Other(14) @@ Madt(35, Full), << 14, 35 >>),   \* no FADT
  Firmware(3, Fadt(25) @@ Madt(35, << Core, ISO(1, 4) >>), << 25, 35 >>) }  \* no I/O APIC

(* An override leads to an interrupt that another one overrides. *)
ChainFirmwares == { Firmware(8, Fadt(17) @@ Madt(27, << IOApic(100), ISO(1, 0), ISO(0, 2) >>),
                             << 17, 27 >>) }
-----------------------------------------------------------------------------
(* Modules.  A page is eight bytes, a block four, a name three characters. *)
Octal(n) == << n \div 8, n % 8 >>
Entry(p, slash, n, t) == [path |-> p, slash |-> slash, size |-> n, type |-> t]
Archive(b, files) ==
  LET Start(n) == b + Block * (n - 1) +
        FoldFunctionOnSet(+, 0, [l \in DOMAIN files |-> 4 * ((files[l].size + 3) \div 4)], 1 .. n - 1)
      place == [n \in 1 .. Len(files) + 1 |-> Start(n)]
      FirstBlock(n) == LET f == files[n]
                     name == f.path \o (IF f.slash THEN << 47 >> ELSE << >>) \o << 0, 0, 0 >>
                 IN [name |-> SubSeq(name, 1, NameMax), numeral |-> Octal(f.size), type |-> f.type]
  IN [base |-> b, size |-> Start(Len(files) + 1) - b + Block, ustar |-> TRUE, files |-> files,
      place |-> place,
      header |-> FoldSet(LAMBDA n, rest : (place[n] :> FirstBlock(n)) @@ rest, << >>, DOMAIN files)]
Unknown(b, n) == [base |-> b, size |-> n, ustar |-> FALSE, files |-> << >>, place |-> << >>, header |-> << >>]

(* Directories, files of no, part of a, one, and several blocks, across pages;
   a path twice, paths that begin like others, and a name without NUL. *)
Mixed == << Entry(<< 97 >>, TRUE, 0, 53), Entry(<< 97, 47, 98 >>, FALSE, 9, 48),
            Entry(<< 98 >>, FALSE, 4, 48), Entry(<< 97, 98 >>, TRUE, 0, 53),
            Entry(<< 98 >>, FALSE, 5, 48), Entry(<< 98, 98 >>, FALSE, 0, 48) >>

MCResponses == { << >>,
  << Archive(16, Mixed) >>,                            \* what the kernel's image has
  << Archive(40, << >>), Archive(16, << Entry(<< 97 >>, FALSE, 5, 48) >>) >>,
  << Archive(8, << Entry(<< 97, 97, 97 >>, FALSE, 63, 48) >>), Unknown(80, 9) >>,
  << Unknown(24, 1), Archive(8, << >>) >> }

MCPaths == { << 97 >>, << 98 >>, << 97, 98 >>, << 98, 97 >>, << 97, 47 >>, << 97, 47, 98 >>,
             << 97, 97 >>, << 97, 97, 97 >>, << 97, 47, 97 >> }
=============================================================================
