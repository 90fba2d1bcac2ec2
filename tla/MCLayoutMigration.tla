-------------------------- MODULE MCLayoutMigration --------------------------
(* The clusters app, dev and dev-eu; app has no infrastructure directory.  *)
(* An SSH key of dev-eu, if there is one, is planned for dev as well: its  *)
(* name begins with "dev-".  Moves of one source go by their destinations, *)
(* and "dev-eu/" sorts before "dev/".                                      *)
EXTENDS LayoutMigration

Put(of, what) == [from |-> [of |-> of, what |-> what], to |-> <<of, what>>]
SSHKey == [of |-> "dev-eu", what |-> "ssh key"]

MCMoves ==
  <<Put("app", "config"), Put("dev", "config"), Put("dev-eu", "config"),
    Put("organization", ".git"), Put("organization", "infrastructure"),
    Put("app", "age key"), Put("dev", "age key"),
    Put("dev-eu", "ssh key"), [from |-> SSHKey, to |-> <<"dev", "ssh key of dev-eu">>]>>

MCOptional == {SSHKey, [of |-> "dev", what |-> "age key"]}

OnOtherDevice == {[of |-> "dev", what |-> "age key"], Git}
==============================================================================
