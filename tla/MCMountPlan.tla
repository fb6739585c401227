----------------------------- MODULE MCMountPlan -----------------------------
(***************************************************************************)
(* MountPlan for TLC: a small host, every registered tool, and rules that  *)
(* overlap one another, the builder's own mounts and the tools'.           *)
(***************************************************************************)
EXTENDS ContainerMounts

MCHome == <<"home">>
MCSandbox == <<"sandbox">>
MCRuntime == <<"run">>
MCContainerHome == <<"guest">>
MCHostMise == <<"opt", "host-mise">>
MCCache == <<"cache">>
MCManifest == <<"overlays.json">>
MCContainerCA == <<"etc", "ssl", "certs", "devsandbox-ca.crt">>
MCProject == <<"home", "src">>
MCMainRepo == <<"home", "repo">>
MCProjects == {MCProject}
InSrc(p) == MCProject \o p
MCCACertPath == <<"tmp", "devsandbox-ca.crt">>
NoDir == <<>>
MCBinary == [t \in {"herdr", "kitty", "zellij"} |-> <<"usr", "bin", t>>]

MCEnvFiles == {InSrc(<<".env">>), InSrc(<<"a", ".env">>), InSrc(<<"vendor", ".env">>),
               InSrc(<<"a", "b", "c", "d", ".env">>)}
MCHostFiles ==
  MCEnvFiles
    \cup {InSrc(<<".devsandbox.toml">>), InSrc(<<"a", "key">>), <<"opt", "t">>,
          <<"run", "key">>, <<"etc", "hosts">>,
          <<"home", ".config", "nvim", "key">>, <<"home", ".claude.json">>,
          <<"home", ".gitconfig">>, <<"home", ".zshrc">>}

MCSystemLists ==
  [system |-> << <<"usr">>, <<"lib">> >>,
   network |-> << <<"etc", "hosts">>, <<"etc", "ssl">> >>,
   locale |-> << <<"etc", "localtime">>, <<"usr", "share", "zoneinfo">> >>,
   ca |-> << <<"etc", "pki">>, <<"etc", "ssl", "certs">> >>]

MountRule(relative, mode, matches) ==
  [relative |-> relative, mode |-> mode, matches |-> matches]
MCRules ==
  {MountRule(TRUE, "hidden", {<<"a">>, <<"a", "key">>}),            \* **/a/**
   MountRule(TRUE, "readonly", {<<"a">>}),
   MountRule(TRUE, "hidden", {<<"a">>, <<"a", "key">>, <<"a", ".env">>}),
   MountRule(FALSE, "readwrite", {InSrc(<<"a", "key">>)}),
   MountRule(FALSE, "tmpoverlay", {<<"home", ".config">>}),
   MountRule(FALSE, "hidden", {<<"home", ".config", "nvim", "key">>}),
   MountRule(FALSE, "readonly", {<<"opt">>}),
   MountRule(FALSE, "hidden", {<<"opt", "t">>, <<"run", "key">>}),
   MountRule(FALSE, "readonly", {<<"home", ".ssh">>})}
MCRuleSets == {<<>>} \cup {<<r>> : r \in MCRules} \cup (MCRules \X MCRules)

EveryTool == {RegistryOrder[i] : i \in DOMAIN RegistryOrder}
MCToolSets == {{}, EveryTool \ {"shell-zsh"}, EveryTool \ {"oh-my-zsh", "nvim"}}

Option(hide, visibility, git, copied, proxy) ==
  [hideEnv |-> hide, visibility |-> visibility, gitMode |-> git, copied |-> copied,
   proxy |-> proxy, mitm |-> copied, mountMode |-> IF copied THEN "" ELSE "readwrite",
   disabled |-> IF copied THEN {} ELSE {"claude"}, setupFails |-> ~copied,
   worktree |-> ~copied, envVars |-> {"HTTP_PROXY", "PATH"},
   passthrough |-> {"PATH", IF copied THEN "GOPROXY" ELSE "MISE_TIMEOUT"}]
PlainOption == Option(FALSE, "readwrite", "disabled", TRUE, FALSE)
\* Tried with every pair of rules ...
RuledOptions ==
  {Option(TRUE, "hidden", "readonly", TRUE, TRUE),
   Option(TRUE, "readonly", "readwrite", FALSE, TRUE), PlainOption}
\* ... and without: every mount mode, in a worktree and not.
MCOptions ==
  RuledOptions \cup
  {[o EXCEPT !.mountMode = mode, !.worktree = worktree] :
     o \in RuledOptions, worktree \in BOOLEAN,
     mode \in {"readonly", "readwrite", "overlay", "tmpoverlay", "split"}}

\* A host with both oh-my-zsh and a zsh configuration.
ZshHost == {{"oh-my-zsh", "shell-zsh"}, {"mise", "shell-zsh", "git"}}
NoRules == {<<>>}
=============================================================================
