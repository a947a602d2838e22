-------------------------- MODULE MCChooseBuilder --------------------------
EXTENDS ChooseBuilder

Gcc(x, bpf, V) == {[distro |-> x, ver |-> v, bpf |-> bpf] : v \in V}

\* The Dockerfiles of the repository for a distribution and a version of gcc.
MCDockerfile ==
    Gcc("centos", FALSE, {<<4, 4>>, <<4, 8>>})
    \cup Gcc("centos", TRUE, {<<7, 3>>, <<8, 3>>, <<9, 2>>, <<10, 3>>, <<11, 0>>,
                             <<11, 2>>, <<12, 1>>, <<13, 2>>})
    \cup Gcc("debian", FALSE, {<<4, 9>>})
    \cup Gcc("debian", TRUE, {<<6, 3>>, <<8, 3>>, <<10, 2>>, <<11, 2>>, <<12, 2>>, <<13, 2>>})
    \cup Gcc("ubuntu", FALSE, {<<4, 8>>, <<5, 4>>})
    \cup Gcc("ubuntu", TRUE, {<<7, 4>>, <<10, 3>>, <<11, 2>>, <<11, 3>>, <<11, 4>>,
                             <<12, 2>>, <<12, 3>>, <<13, 2>>})
    \cup Gcc("oracle", FALSE, {<<4, 4>>, <<4, 8>>})
    \cup Gcc("oracle", TRUE, {<<8, 5>>, <<11, 3>>})
    \cup Gcc("flatcar", TRUE, {<<11, 2>>})

\* The two of a distribution release.
MCTagDockerfile ==
    {[tag |-> "fc34", suffix |-> "-bpf"],
     [tag |-> "amzn2", suffix |-> "-gcc7.3-bpf"]}

\* There is no image for fc40.  gcc versions with one and two digits, below, at,
\* between and above those of the images.
MCKernel ==
    [tag : {None, "fc34", "amzn2", "fc40"}, form : Form,
     gcc : {4, 9, 10, 11, 13, 14} \X {1, 2, 8, 12} \X {0, 1, 12}]
=============================================================================
