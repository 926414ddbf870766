-------------------------- MODULE MCRegistryIndex --------------------------
(***************************************************************************)
(* Instances of RegistryIndex for TLC.                                     *)
(***************************************************************************)
EXTENDS RegistryIndex, TLC

CONSTANTS c1, c2

\* Three published sources, one of them a directory, and a preview.
Kinds == [x |-> "index", y |-> "index", f |-> "file", g |-> "git"]

\* The first holds the recipe, one of its releases no version; the second takes
\* the same name, and gives it up again.  Tags coincide.
Contents ==
  [x |-> [v1 |-> "r" :> {0, 1, 2}],
   y |-> [v1 |-> [r \in {} |-> {}], v2 |-> "r" :> {1, 3}],
   f |-> [v1 |-> "r" :> {2}],
   g |-> [v1 |-> "r" :> {1}]]

\* One command gets or lists; the other refreshes and changes the configuration.
Roles == c1 :> {"get", "browse"} @@ c2 :> {"refresh", "add", "remove"}

\* The name alone, qualified, at a version, and an update in place.
Args ==
  {[registry |-> None, name |-> "r", version |-> None],
   [registry |-> None, name |-> None, version |-> 1]}

Installed == [registry |-> "b", name |-> "r"]

\* b may come to stand for any source.
Additions == {<<"b", "x">>, <<"b", "g">>}

Beginnings == {("a" :> "x" @@ "b" :> "y"), ("a" :> "f" @@ "b" :> "x")}

Urls == [x |-> {"https", "file"}, y |-> {"https"}, f |-> {"file"}, g |-> {"file"}]

=============================================================================
