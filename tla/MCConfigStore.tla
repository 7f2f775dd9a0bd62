---------------------------- MODULE MCConfigStore ----------------------------
(* Small instances of ConfigStore: two or three entries, one or two pages.    *)
EXTENDS ConfigStore

CONSTANTS blog, mail, wrong

Three == {blog, mail, wrong}
Wrong == {wrong}
On(name) == [name |-> name, disabled |-> FALSE]
Both == <<On(blog), On(mail)>>
NoEnv == {}
OneEnv == {<<On(mail)>>}
=============================================================================
