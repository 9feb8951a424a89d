--------------------------- MODULE MCDcigettextEnv --------------------------
(***************************************************************************)
(* Small instances of DcigettextEnv for TLC.                               *)
(***************************************************************************)
EXTENDS DcigettextEnv, TLC

CONSTANTS t1, messages, usr, C, de, de_DE, fr, path, m1

MCThreads1 == {t1}

\* In the locale "de" the catalog de_DE is tried before de.
MCCatalogNames == {de_DE, de, fr, path}
MCTried == [l \in Locales |->
              CASE l = C -> <<>> [] l = de -> <<de_DE, de>> [] OTHER -> <<l>>]

\* All the catalogs have the message, also the one named like a file; it may be
\* lost in fr.
MCInstalled == {<<Catalog(usr, loc, messages), m1>> : loc \in MCCatalogNames}
MCFailing   == {entry \in MCInstalled : entry[1].loc = fr}

\* LANGUAGE unset, LANGUAGE=fr:de, and the name of a file before it.
MCPathLanguages == {<<>>, <<path, de>>, <<fr, de>>}
=============================================================================
