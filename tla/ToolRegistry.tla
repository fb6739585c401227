----------------------------- MODULE ToolRegistry -----------------------------
(***************************************************************************)
(* What each registered tool binds into a sandbox (internal/sandbox/tools, *)
(* the Bindings methods), in the order of the registry, which sorts tools  *)
(* by name.  A path is a sequence of names.  A binding with no type of its *)
(* own takes the one its mount mode and category give it                   *)
(* (ResolveBindingType in internal/sandbox/builder.go).                    *)
(***************************************************************************)
EXTENDS Naturals, Sequences

CONSTANTS
  Home,           \* the user's home directory, on the host and in the sandbox
  SandboxCopies,  \* host directory that is the sandbox home
  Runtime,        \* XDG_RUNTIME_DIR
  ClaudeDir,      \* CLAUDE_CONFIG_DIR, <<>> when it is not set
  Binary          \* the path PATH gives for a terminal's own binary: Binary[tool]

\* How a container is to take the destination: as it is written ...
Binding(source, dest, type, ro, category) ==
  [source |-> source, dest |-> dest, type |-> type, ro |-> ro, category |-> category,
   to |-> "asGiven"]
\* ... as none, which stands for the source, and goes where the source would be ...
NoDest(path, type, ro, category) ==
  [Binding(path, path, type, ro, category) EXCEPT !.to = "source"]
\* ... or as a place in the sandbox home: HomeRelativeDest.
HomeRelative(b) == [b EXCEPT !.to = "home"]

\* A path of the home, bound at itself.
InHome(names, category) == NoDest(Home \o names, "", FALSE, category)
\* The same with a type of its own.
ReadOnly(path) == NoDest(path, "bind", TRUE, "config")
Writable(path) == NoDest(path, "bind", FALSE, "config")
\* A copy made by the tool's Setup in the sandbox home, in the place of the original.
Copied(name, names) ==
  Binding(Append(SandboxCopies, name), Home \o names, "", FALSE, "config")

Config(app) == InHome(<<".config", app>>, "config")
Data(app) == InHome(<<".local", "share", app>>, "data")
State(app) == InHome(<<".local", "state", app>>, "state")
Cache(app) == InHome(<<".cache", app>>, "cache")
Dotfile(name) == InHome(<<name>>, "config")

ClaudeState == IF ClaudeDir = <<>> THEN Append(Home, ".claude") ELSE ClaudeDir

ClaudeBindings ==
  << ReadOnly(<<"opt", "claude-code">>),
     NoDest(ClaudeState, "", FALSE, "config"),
     NoDest(Append(ClaudeState, "projects"), "", FALSE, "data") >>
  \o (IF ClaudeDir = <<>>
      THEN << Writable(Append(Home, ".claude.json")),
              Writable(Append(Home, ".claude.json.backup")) >>
      ELSE <<>>)
  \o << Config("Claude"), Cache("claude-cli-nodejs"),
        ReadOnly(Home \o <<".local", "share", "claude">>) >>

CodexBindings == << Dotfile(".codex"), InHome(<<".codex", "sessions">>, "data") >>

CopilotBindings ==
  << InHome(<<".copilot">>, "data"), Config("github-copilot"),
     Cache("github-copilot") >>

\* mode is the tool's own setting; repo is the main repository when the project is
\* a worktree of it, and the project otherwise.
GitBindings(mode, project, repo) ==
  LET git == Append(repo, ".git") IN
  CASE mode = "readonly" ->
         << HomeRelative(Copied(".gitconfig.safe", <<".gitconfig">>)),
            HomeRelative(Binding(Append(SandboxCopies, ".gitignore.safe"),
                                 Append(Home, ".gitignore.safe"), "bind", TRUE, "config")),
            HomeRelative(Binding(Append(SandboxCopies, ".gitattributes.safe"),
                                 Append(Home, ".gitattributes.safe"), "bind", TRUE, "config")),
            IF repo # project THEN Binding(git, git, "bind", TRUE, "config")
            ELSE ReadOnly(git),
            Binding(Append(SandboxCopies, ".git-config.safe"), Append(git, "config"),
                    "bind", TRUE, "config") >>
    [] mode = "readwrite" ->
         << Dotfile(".gitconfig"), Dotfile(".git-credentials"), Dotfile(".ssh"),
            Dotfile(".gnupg") >>
         \o (IF repo # project THEN << Binding(git, git, "", FALSE, "config") >>
             ELSE <<>>)
    [] OTHER -> <<>>

Under(dir, path) == Len(dir) <= Len(path) /\ SubSeq(path, 1, Len(dir)) = dir

\* The binary is bound only when it is outside the home; the proxy's socket at the
\* place where the client looks by itself.
HerdrBindings ==
  (IF Under(Home, Binary["herdr"]) THEN <<>>
   ELSE << Binding(Binary["herdr"], Binary["herdr"], "", TRUE, "runtime") >>)
  \o << Binding(Append(SandboxCopies, "herdr.sock"),
                Home \o <<".config", "herdr", "herdr.sock">>, "bind", FALSE,
                "runtime") >>

\* The binary is bound wherever it is.
KittyBindings == << Binding(Binary["kitty"], Binary["kitty"], "", TRUE, "runtime") >>

MiseBindings ==
  << ReadOnly(Home \o <<".local", "bin">>), Config("mise"), Data("mise"),
     Cache("mise"), State("mise") >>

NvimBindings == << Config("nvim"), Data("nvim"), State("nvim"), Cache("nvim") >>

OhMyPoshBindings == << Config("ohmyposh"), InHome(<<".poshthemes">>, "data") >>

\* copied: Setup has made its copies, which then exist in the sandbox home.
OhMyZshBindings(copied) ==
  << InHome(<<".oh-my-zsh">>, "data") >>
  \o (IF copied
      THEN << Binding(Append(SandboxCopies, ".oh-my-zsh-custom"),
                      Home \o <<".oh-my-zsh", "custom">>, "", FALSE, "data") >>
      ELSE <<>>)

OpenCodeBindings ==
  << Config("opencode"), Data("opencode"), Cache("opencode"),
     Cache("oh-my-opencode") >>

PiBindings ==
  << InHome(<<".pi", "agent">>, "config"),
     InHome(<<".pi", "agent", "sessions">>, "data") >>

PortalBindings ==
  << Binding(Append(SandboxCopies, ".dbus-proxy"), Append(Runtime, ".dbus-proxy"),
             "bind", TRUE, "runtime"),
     Binding(Append(SandboxCopies, ".flatpak-info"), <<".flatpak-info">>, "bind",
             TRUE, "runtime") >>

Powerlevel10kBindings(copied) ==
  << InHome(<<".oh-my-zsh", "custom", "themes", "powerlevel10k">>, "data"),
     Data("powerlevel10k"), InHome(<<"powerlevel10k">>, "data"),
     Cache("p10k-instant-prompt"),
     IF copied THEN Copied(".p10k.zsh", <<".p10k.zsh">>) ELSE Dotfile(".p10k.zsh") >>

PywalBindings == << Cache("wal") >>
RtkBindings == << Config("rtk"), Data("rtk") >>

BashBindings ==
  << Dotfile(".bashrc"), Dotfile(".bash_profile"), Dotfile(".profile"),
     Dotfile(".bash_aliases"), Dotfile(".bash_completion.d"), Dotfile(".inputrc"),
     Config("bash"), Config("readline"), Data("bash"), InHome(<<".bash_it">>, "data") >>

FishBindings ==
  << InHome(<<".config", "fish", "config.fish">>, "config"),
     InHome(<<".config", "fish", "functions">>, "config"),
     InHome(<<".config", "fish", "completions">>, "config"),
     InHome(<<".config", "fish", "conf.d">>, "config") >>

ZshBindings ==
  << Dotfile(".zshrc"), Dotfile(".zshenv"), Dotfile(".zprofile"), Config("zsh"),
     InHome(<<".oh-my-zsh">>, "data"), Data("zsh") >>

StarshipBindings == << Copied("starship.toml", <<".config", "starship.toml">>) >>

TmuxBindings(copied) ==
  << InHome(<<".tmux", "plugins">>, "data"),
     InHome(<<".config", "tmux", "plugins">>, "data") >>
  \o (IF copied THEN << Copied(".tmux.conf", <<".tmux.conf">>) >>
      ELSE << Dotfile(".tmux.conf"), InHome(<<".config", "tmux", "tmux.conf">>,
                                           "config") >>)

\* Its socket directories and its binary; the tool is off by default.
ZellijBindings ==
  << Writable(Append(Runtime, "zellij")),
     Binding(Binary["zellij"], Binary["zellij"], "", TRUE, "runtime") >>

\* The directory host helpers share with the sandbox, for revdiff.
SharedTmp == Home \o <<".cache", "devsandbox", "tmp", "session">>
SharedTmpBinding == Binding(SharedTmp, SharedTmp, "bind", FALSE, "runtime")

\* Docker and Go bind nothing: a socket in the sandbox home, and cache volumes.
RegistryOrder ==
  << "claude", "codex", "copilot", "docker", "git", "go", "herdr", "kitty", "mise",
     "nvim", "oh-my-posh", "oh-my-zsh", "opencode", "pi", "portal", "powerlevel10k",
     "pywal", "revdiff", "rtk", "shell-bash", "shell-fish", "shell-zsh", "starship",
     "tmux", "zellij" >>

ToolBindings(tool, gitMode, project, repo, copied) ==
  CASE tool = "claude" -> ClaudeBindings
    [] tool = "codex" -> CodexBindings
    [] tool = "copilot" -> CopilotBindings
    [] tool = "git" -> GitBindings(gitMode, project, repo)
    [] tool = "herdr" -> HerdrBindings
    [] tool = "kitty" -> KittyBindings
    [] tool = "mise" -> MiseBindings
    [] tool = "nvim" -> NvimBindings
    [] tool = "oh-my-posh" -> OhMyPoshBindings
    [] tool = "oh-my-zsh" -> OhMyZshBindings(copied)
    [] tool = "opencode" -> OpenCodeBindings
    [] tool = "pi" -> PiBindings
    [] tool = "portal" -> PortalBindings
    [] tool = "powerlevel10k" -> Powerlevel10kBindings(copied)
    [] tool = "pywal" -> PywalBindings
    [] tool = "revdiff" -> << SharedTmpBinding >>
    [] tool = "rtk" -> RtkBindings
    [] tool = "shell-bash" -> BashBindings
    [] tool = "shell-fish" -> FishBindings
    [] tool = "shell-zsh" -> ZshBindings
    [] tool = "starship" -> StarshipBindings
    [] tool = "tmux" -> TmuxBindings(copied)
    [] tool = "zellij" -> ZellijBindings
    [] OTHER -> <<>>

\* ResolveBindingType: an explicit type stays; "split" goes by category.
ResolveType(b, mode) ==
  CASE b.type # "" -> b
    [] b.type = "" /\ mode = "readwrite" -> [b EXCEPT !.type = "bind", !.ro = FALSE]
    [] b.type = "" /\ mode = "readonly" -> [b EXCEPT !.type = "bind", !.ro = TRUE]
    [] b.type = "" /\ mode \in {"overlay", "tmpoverlay"} -> [b EXCEPT !.type = mode]
    [] OTHER -> [b EXCEPT !.type = IF b.category \in {"cache", "data", "state"}
                                   THEN "overlay" ELSE "tmpoverlay"]
=============================================================================
