----------------------------- MODULE MCBatching -----------------------------
EXTENDS Batching

\* Headers, modules and image of two flavours of one release, what they share,
\* kbuild for the minor version and for the whole one, the headers and the image of
\* no release (linux-headers-amd64), a library; two RPMs.
Flavours  == {"hg", "mg", "ig", "hr", "mr", "ir"}
MCHeaders == {"hg", "hr", "h0"}
MCName    == Flavours \cup {"c", "kb", "kf", "h0", "m0", "i0", "libc", "kernel", "core"}
MCKernel  == Flavours \cup {"c", "kb", "kf"}
MCModules == [h \in MCHeaders |-> CASE h = "hg" -> "mg" [] h = "hr" -> "mr" [] h = "h0" -> "m0"]
MCImage   == [h \in MCHeaders |-> CASE h = "hg" -> "ig" [] h = "hr" -> "ir" [] h = "h0" -> "i0"]

MCFlavoured == Flavours \cup {"kernel", "core"}
MCAbiOf     == [n \in MCName |-> IF n = "kb" THEN "6.1" ELSE "6.1.0-1"]
MCMinorOf   == [a \in {"6.1.0-1"} |-> "6.1"]
MCFlavourOf == [n \in MCFlavoured |-> CASE n \in {"hg", "mg", "ig"} -> "generic"
                                         [] n \in {"hr", "mr", "ir"} -> "rt"
                                         [] OTHER -> "rpm"]

\* 1+x is a version that begins with 1; odd is none that ubuntu.py reads.
MCVersion == {"1", "1+x", "2", "odd"}
MCExtends == {<<v, v>> : v \in MCVersion} \cup {<<"1+x", "1">>}

\* Three repositories of one release on two mirrors, and one of another release.
MCDrelOf == [r \in Repo |-> IF r = "r4" THEN "b" ELSE "a"]
MCBaseOf == [r \in Repo |-> IF r \in {"r1", "r2"} THEN "m1" ELSE "m2"]
TwoPlaces   == <<<<{"r1"}, {}>>, <<{"r3"}, {"r4"}>>>>
Components  == <<<<{"r1", "r2"}, {}>>, <<{"r3"}>>>>
TwoReleases == <<<<{"r1"}>>, <<{"r4"}, {"r3"}>>>>
Fixed       == <<<<{"r1"}, {"r3"}>>>>

\* Lists.
E(n, v, d) == [name |-> n, version |-> v, depends |-> d]
Lists4(a, b, c, d) == [r \in Repo |-> CASE r = "r1" -> a [] r = "r2" -> b [] r = "r3" -> c [] r = "r4" -> d]

Generic  == <<E("hg", "1", {"c", "libc"}), E("mg", "1", {}), E("c", "1", {})>>
Rt       == <<E("hr", "1", {"c"}), E("ir", "1", {"mr"}), E("c", "1", {})>>
Update   == <<E("hg", "1", {"c"}), E("mg", "1", {}), E("c", "1+x", {"libc"})>>
Headless == <<E("hg", "1", {"c"}), E("mg", "1", {}), E("hr", "odd", {}), E("ir", "1", {})>>
Odd      == <<E("hr", "1", {"c"}), E("mr", "1", {}), E("c", "2", {})>>
Twice    == <<E("hg", "1", {"kf"}), E("hg", "2", {"c"}), E("mg", "2", {}), E("c", "2", {"hg"})>>
Both     == <<E("hg", "1", {"c", "kb"}), E("ig", "1", {}), E("hr", "1", {"c", "kb"}), E("ir", "1", {}), E("c", "1", {}),
              E("h0", "2", {"hg"}), E("i0", "2", {"ig"})>>
Whole    == <<E("hg", "2", {"c", "kf"}), E("ig", "2", {}), E("c", "2", {"kb"})>>
KbMinor  == <<E("kb", "1", {})>>
KbFull   == <<E("kf", "2", {}), E("hr", "2", {"mr"}), E("ir", "2", {}), E("c", "2", {})>>
Rpms     == <<E("kernel", "1", {"core", "libc"}), E("core", "1", {})>>
NewRpms  == <<E("kernel", "2", {"core"}), E("core", "2", {"kernel"})>>

\* Command lines.
TheRelease == [exact |-> {}, release |-> {"hg"}, matching |-> {"hg", "mg", "ig"}]
TheImage   == [exact |-> {}, release |-> {"hr"}, matching |-> {"hr", "mr", "ir"}]
TheName    == [exact |-> {"hg"}, release |-> {}, matching |-> {"hg"}]
TheVersion == [exact |-> {}, release |-> {}, matching |-> Flavours]
TheKernel  == [exact |-> {"kernel"}, release |-> {}, matching |-> {"kernel"}]

AllServed == [r \in Repo |-> {"first", "second"}]
OnlyGz    == [r \in Repo |-> IF r = "r1" THEN {"second"} ELSE {"first"}]
NoneOfOne == [r \in Repo |-> IF r = "r3" THEN {} ELSE {"first", "second"}]

Run(distro, filter, mood, mirrors, lists, served) ==
    [distro |-> distro, filter |-> filter, mood |-> mood, mirrors |-> mirrors, lists |-> lists, served |-> served]

Moods == {"steady", "resets", "down"}

Ubuntu ==
    {Run("ubuntu", NoFilter, m, Components, Lists4(Generic, Rt, Update, <<>>), s) :
        m \in Moods, s \in {AllServed, NoneOfOne}}
    \cup {Run("ubuntu", f, m, TwoReleases, Lists4(Headless, <<>>, Twice, Rt), OnlyGz) :
        m \in Moods, f \in {NoFilter, TheRelease, TheImage, TheName, TheVersion}}
    \cup {Run("ubuntu", NoFilter, "steady", TwoReleases, Lists4(Generic, <<>>, Odd, Rt), AllServed)}

Debian ==
    {Run("debian", f, m, TwoPlaces, Lists4(Both, <<>>, KbMinor, Whole), s) :
        m \in Moods, f \in {NoFilter, TheRelease, TheImage}, s \in {AllServed, NoneOfOne}}
    \cup {Run("debian", NoFilter, m, Components, Lists4(Whole, KbMinor, KbFull, <<>>), OnlyGz) : m \in Moods}

Rpm ==
    {Run("rpm", f, m, TwoPlaces, Lists4(Rpms, <<>>, NewRpms, Rpms), s) :
        m \in Moods, f \in {NoFilter, TheKernel}, s \in {AllServed, NoneOfOne}}
    \cup {Run("amazon", NoFilter, m, Fixed, Lists4(Rpms, <<>>, Rpms, <<>>), AllServed) : m \in Moods}
    \cup {Run("amazon", NoFilter, "steady", TwoPlaces, Lists4(Rpms, <<>>, Rpms, Rpms), AllServed)}

MCWorld == Ubuntu \cup Debian \cup Rpm

\* The lists of all these worlds are named as the builders expect, alone and, for
\* Debian, as all_packages has them, whichever are missing.
Rank(r) == CHOOSE n \in 1..4 : r = <<"r1", "r2", "r3", "r4">>[n]
PoolOf(w, S) ==
    LET Last(n) == CHOOSE q \in S : /\ n \in DOMAIN IndexIn(w, q)
                                    /\ \A p \in S : n \in DOMAIN IndexIn(w, p) => Rank(p) <= Rank(q)
    IN  [n \in UNION {DOMAIN IndexIn(w, q) : q \in S} |-> IndexIn(w, Last(n))[n]]

ASSUME MCListsAreNamed ==
    /\ NamesAreParsed
    /\ \A w \in Ubuntu, r \in Repo : NamedAsUbuntu(IndexIn(w, r))
    /\ \A w \in Debian, d \in Drel, S \in SUBSET Repo :
           (\A r \in S : DrelOf[r] = d) => NamedAsDebian(PoolOf(w, S))
    /\ \A w \in Rpm, r \in Repo : HeadersName \cap DOMAIN IndexIn(w, r) = {}

\* Local files: with two versions of kbuild, without one, without a release.
F(n, v) == [name |-> n, version |-> v]
Files == {{F("hg", "1"), F("ig", "1"), F("c", "1"), F("kb", "1"), F("kb", "2"), F("libc", "1")},
          {F("hg", "1"), F("hr", "2"), F("kf", "1"), F("kb", "1")}, {F("c", "1")}}
MCArguments == [x \in {"ubuntu", "debian", "rpm", "amazon"} |->
                   CASE x \in {"ubuntu", "debian"} -> {{}} \cup Files
                     [] x = "rpm"    -> {{}, {F("kernel", "1"), F("core", "1"), F("libc", "1")}}
                     [] x = "amazon" -> {{}}]
=============================================================================
