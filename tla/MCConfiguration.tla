-------------------------- MODULE MCConfiguration --------------------------
(***************************************************************************)
(* Values for Configuration: no file, a blank one, both schemas with and   *)
(* without what a reading drops, and files this release cannot read.       *)
(***************************************************************************)
EXTENDS Configuration

Record(host, friendly) == [host |-> host, model |-> Some(""), friendly_name |-> friendly]
Single(friendly, favorites) ==
    Text({"receiver"}, TRUE, [receiver |-> Record("h1", friendly), favorites |-> favorites])
Multi(version, current_name, favorites) ==
    Text({"version"}, TRUE, [version |-> version, current |-> current_name,
                             receivers |-> "den" :> Record("h1", Some("")),
                             favorites |-> favorites])
Simple == [by_category |-> FALSE, modes |-> "den" :> {"m1", ""}]
ByCategory == [by_category |-> TRUE, modes |-> "den" :> ("movie" :> {"m1"} @@ "music" :> {"m1"})]
NoFavorites == [by_category |-> FALSE, modes |-> << >>]

Legacy == Single(Some("den"), ByCategory)
Later == Multi(3, Some("den"), << >>)
Inconsistent == Multi(2, Some("gone"), << >>)
MCInitialFiles ==
    {None, Some(Multi(2, Some("den"), "den" :> {"m1"})), Some(Legacy)}
MCHandTexts ==
    {Blank, Cut, Later, Inconsistent, Single(None, NoFavorites), Single(Some("den"), Simple),
     Multi(2, None, << >>)}
=============================================================================
