----------------------------- MODULE MCMigrations -----------------------------
(* Two hosts.  The directories: an old release, a later one with a file more,  *)
(* one with a file that sorts between those of the old one, one with an edited *)
(* file, and one with a blank file.                                            *)
EXTENDS Migrations

CONSTANTS p1, p2, a, b, c, b2, blank, absent

MCReleases ==
    {<<a, absent, b>>, <<a, c, b>>, <<a, absent, b2>>, <<a, c, blank>>}

=============================================================================
