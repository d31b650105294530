-------------------------------- MODULE MCStaging --------------------------------
(***************************************************************************)
(* Packs for TLC.  Each family leaves one plain pack in one way: the name  *)
(* and the PT_INTERP string of the program, the sonames, the name services *)
(* and extras, the added files, the locales.                               *)
(***************************************************************************)
EXTENDS Staging

Lib(path, soname) == [path |-> path, soname |-> soname]
Libc == Lib(<<"usr", "lib", "libc-2">>, <<"libc.so.6">>)
LibX == Lib(<<"opt", "libx-1">>, <<"libx.so">>)

Plain ==
  [mode |-> "CopyAll", program |-> [named |-> <<"bin", "app">>, real |-> <<"bin", "app">>],
   interp |-> <<"lib64", "ld">>, ld |-> <<"usr", "lib", "ld-2">>, libs |-> <<Libc, LibX>>,
   ldconfig |-> TRUE, modules |-> {"libnss_files.so.2", "libnss_dns.so.2", "libresolv.so.2"},
   nss |-> [files |-> TRUE, dns |-> FALSE], upx |-> FALSE,
   extras |-> {}, hostExtras |-> {"ca_certs", "tz", "init"}, add |-> <<>>, locales |-> <<>>]

Modes == {"CopyAll", "Preserve", "CopyUnsafe", "SkipUnsafe"}

\* The loader's path as linkers write it, with `..` in it, above the root, through a file.
Programs ==
  {[Plain EXCEPT !.mode = m, !.program.named = n, !.interp = i, !.upx = u] :
     m \in Modes, u \in BOOLEAN,
     n \in {<<"bin", "app">>, <<"bin", "py">>, <<"sbin", "a", "app">>},
     i \in {<<>>, <<"lib64", "ld">>, <<"lib", Up, "lib64", "ld">>, <<Up, Up, "x", "ld">>,
            <<"lib64", Up>>, <<"bin", "app", "ld">>, <<"usr", "lib", "ld-2">>}}

\* Named by a path with `..` in it: `pack ../app` from /bin/x.
Dotted ==
  {[Plain EXCEPT !.mode = m, !.program.named = <<"bin", "x", Up, "app">>] : m \in Modes}

Sonames ==
  {<<"libx.so">>, <<"libx-1">>, <<Up, "usr", "lib", "y">>, <<Up, "none", "y">>, <<"a", Up, "y">>,
   <<Root, "usr", "lib", "y">>, <<Up, Up, "usr", "lib", "libc.so.6">>, <<Up>>}

Libraries ==
  {[Plain EXCEPT !.libs = <<Libc, [LibX EXCEPT !.soname = n],
                             Lib(<<"opt", "z", "libz">>, z)>>, !.ldconfig = l] :
     n \in Sonames, z \in {<<"libz">>, <<Up, "libx.so">>, <<Up, Up, "opt", "y">>}, l \in BOOLEAN}

Services ==
  {[Plain EXCEPT !.nss = [files |-> f, dns |-> d], !.modules = ms, !.libs = ls, !.extras = e,
                 !.hostExtras = h] :
     f \in BOOLEAN, d \in BOOLEAN,
     ms \in {{}, {"libnss_files.so.2"}, {"libnss_files.so.2", "libnss_dns.so.2", "libresolv.so.2"}},
     ls \in {<<LibX>>, <<LibX, Libc>>},
     e \in SUBSET {"ca_certs", "tz", "init"}, h \in {{"ca_certs", "init"}, {"ca_certs", "tz", "init"}}}

\* --add-file entries: a file, something else, or a link on the host.
Source(dst)        == [src |-> <<"opt", Last(dst)>>, dst |-> dst, link |-> FALSE, value |-> <<>>]
PlainFile(dst, is) == Source(dst) @@ [leads |-> is]
Link(dst, value, is) ==
  [Source(dst) EXCEPT !.link = TRUE, !.value = value] @@ [leads |-> is]

Values ==
  {<<"b">>, <<"libx-1">>, <<Up, "opt", "libx-1">>, <<Root, "usr", "lib", "libc-2">>, <<Root, "usr", "lib">>,
   <<Root, "none">>, <<"a">>}

FirstAdds ==
  {PlainFile(d, is) : d \in {<<"etc", "a">>, <<"bin", "app">>, <<"srv">>}, is \in {"file", "dir", "none"}}
    \cup {Link(d, v, is) : d \in {<<"etc", "a">>, <<"srv">>}, v \in Values, is \in {"file", "dir", "none"}}

SecondAdds ==
  {PlainFile(d, "file") : d \in {<<"etc", "b">>, <<"srv", "n">>, <<"srv", "libc-2">>}}
    \cup {Link(<<"etc", "b">>, v, "file") : v \in {<<"a">>, <<Root, "srv">>, <<"b">>}}

\* The third, of another source, lands where the second may be, under another spelling.
ThirdAdds ==
  {<<>>, <<[PlainFile(<<"usr", "lib", "n">>, "file") EXCEPT !.src = <<"opt", "m">>]>>}

Adds ==
  {[Plain EXCEPT !.mode = m, !.add = <<x, y>> \o z] :
     m \in Modes, x \in FirstAdds, y \in SecondAdds, z \in ThirdAdds}

\* A link whose value leaves a directory by `..` that the image does not have, or leaves a link.
Crooked ==
  {[Plain EXCEPT !.mode = m,
                 !.add = <<Link(<<"srv">>, <<Root, "usr", "lib">>, "dir"), Link(d, v, "file")>>] :
     m \in Modes, d \in {<<"etc", "b">>, <<"srv", "n">>},
     v \in {<<Up, "var", Up, "opt", "libx-1">>, <<Up, "opt", "libx-1">>, <<Root, "srv", Up, "bin", "app">>}}

Locales ==
  {[Plain EXCEPT !.locales = <<[name |-> n, host |-> h, charmap |-> c, compiles |-> p],
                               [name |-> "C.UTF-8", host |-> "dir", charmap |-> TRUE, compiles |-> TRUE]>>,
                 !.add = a] :
     n \in {"en", Up}, h \in {"dir", "odd", "none"}, c \in BOOLEAN, p \in BOOLEAN,
     a \in {<<>>, <<PlainFile(<<"usr", "lib", "locale", "en">>, "file")>>,
            <<PlainFile(<<"usr", "lib", "locale">>, "file")>>}}

\* A locale directory behind a kept link, whose value leaves by `..` a directory that the image
\* does not have, and a file, or a link, added where the link leads.
Hidden ==
  {[Plain EXCEPT !.mode = "Preserve",
                 !.add = <<Link(<<"usr", "lib", "locale">>, <<Root, "none", Up, "alt">>, "dir"),
                           x>>,
                 !.locales = <<[name |-> "C.UTF-8", host |-> "dir", charmap |-> TRUE, compiles |-> TRUE]>>] :
     x \in {PlainFile(<<"alt", "C.UTF-8", "LC_CTYPE">>, "file"),
            Link(<<"alt", "C.UTF-8", "LC_CTYPE">>, <<Root, "etc", "x">>, "file")}}

AnyName == STRING

Straight == Programs \cup Libraries \cup Services \cup Adds \cup Locales
==================================================================================
