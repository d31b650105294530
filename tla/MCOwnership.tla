------------------------------ MODULE MCOwnership ------------------------------
EXTENDS Ownership

\* A library of two architectures and the package of the CA bundle.
MCPackages == {"libc6:amd64", "libc6:i386", "certs"}
MCNameOf == [p \in MCPackages |-> IF p = "certs" THEN "certs" ELSE "libc6"]

\* One file under /usr on a host where /lib is a link, one where it is not, one whose
\* name reads as a pattern, and a configuration file.
MCFiles == {"merged", "plain", "glob", "conf"}

Row(status, ships) == [status |-> status, version |-> 1, ships |-> ships]
Only(f, spelling) == {<<f, spelling>>}

\* What each package ships, and whether the library and the bundle's package are installed.
MCDatabases ==
  {[p \in MCPackages |->
      CASE p = "libc6:amd64" -> Row("installed", ships)
        [] p = "libc6:i386"  -> Row(second, ships)
        [] p = "certs"       -> Row(bundled, Only("glob", "full") \cup Only("conf", "full"))] :
     ships \in {Only("merged", "full"), Only("merged", "short"), Only("plain", "short")},
     second \in {"installed", "absent"}, bundled \in {"installed", "config-files", "absent"}}

LeftBehind(kind, empty) == [kind |-> kind, empty |-> empty]
MCBackends ==
  {{LeftBehind("data", FALSE), LeftBehind("lock", TRUE), LeftBehind("wal", TRUE)},
   {LeftBehind("data", FALSE), LeftBehind("wal", FALSE), LeftBehind("index", FALSE)},
   {LeftBehind("lock", TRUE), LeftBehind("wal", TRUE)}}
================================================================================
