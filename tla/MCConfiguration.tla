--------------------------- MODULE MCConfiguration ---------------------------
(* Strings and integers from sources whose values can be told apart.         *)
EXTENDS Configuration

\* 0 is Unset; integers are named apart from the texts.
Strtol == [x \in {"8080", "9090", "0"} |->
             IF x = "8080" THEN "int8080" ELSE IF x = "9090" THEN "int9090" ELSE Unset]

\* A string whose short option is missing, and an integer.
TwoSettings == {"defaultDocument", "port"}
OneInt      == {"port"}
Arguments   == {"8080", "0"}
Environment == {"9090", "0"}
Defaults    == [defaultDocument |-> "index.html", port |-> "int80"]
FourFiles   == [defaultDocument : {"home.html", Unset}, port : {"int877", Unset}]
AnyFile     == FourFiles \cup {Absent, Broken}

\* A setting for each of the rules that can fail, whole files only.
ThreeSettings == {"defaultDocument", "maxConnections", "port"}
TwoInts       == {"maxConnections", "port"}
JustZero      == {"0"}
JustAPort     == {"9090"}
MoreDefaults  == [defaultDocument |-> "index.html", maxConnections |-> "int30",
                  port |-> "int80"]
SomeFiles     == [defaultDocument : {"home.html", "first.html"},
                  maxConnections : {"int7", Unset}, port : {Unset}]
=============================================================================
