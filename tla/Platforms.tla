----------------------------- MODULE Platforms ------------------------------
(***************************************************************************)
(* The table of AI platforms `mneme install` knows (cli/src/platforms):    *)
(* for each one the prompt manifest, the MCP registry and the hook file it *)
(* writes, in user scope (global scope is the same) and in project scope,  *)
(* and which writer the adapter uses.  A path is only a name: "~/" is the  *)
(* home directory, "./" the project.                                       *)
(*                                                                         *)
(* Writers of the registry: "merge" parses, sets the entry and prints the  *)
(* file again, with a strip that finds the entry; "zed" merges under a key *)
(* that the strip does not look at; "append" adds YAML text once, which    *)
(* the strip (a JSON parser) cannot read.  Writers of the hook file:       *)
(* "merge", with a backup; "plain", which replaces the file without one.   *)
(***************************************************************************)
EXTENDS Sequences, SequencesExt

At(user, project) == [user |-> user, project |-> project]
HomeOnly(path) == At(path, path)
Agents == At("~/AGENTS.md", "./AGENTS.md")
NoHooks == [writer |-> "none", path |-> HomeOnly("")]
Hooks(writer, path) == [writer |-> writer, path |-> path]
Adapter(manifest, mcp, writer, hooks) ==
    [manifest |-> manifest, mcp |-> mcp, writer |-> writer, hooks |-> hooks]

ClaudeCode == Adapter(At("~/.claude/CLAUDE.md", "./CLAUDE.md"),
                      At("~/.claude.json", "./.mcp.json"), "merge", NoHooks)
Codex == Adapter(Agents, HomeOnly("~/.codex/config.toml"), "merge", NoHooks)
Cursor == Adapter(Agents, At("~/.cursor/mcp.json", "./.cursor/mcp.json"), "merge",
                  Hooks("merge", HomeOnly("~/.cursor/hooks.json")))
Windsurf == Adapter(At("~/.windsurfrules", "./.windsurfrules"),
                    HomeOnly("~/.codeium/windsurf/mcp_config.json"), "merge",
                    Hooks("plain", At("~/.windsurf/workflows/mneme.md",
                                      "./.windsurf/workflows/mneme.md")))
Zed == Adapter(Agents, HomeOnly("~/.config/zed/settings.json"), "zed", NoHooks)
ContinueDev == Adapter(Agents, HomeOnly("~/.continue/config.json"), "merge", NoHooks)
OpenCode == Adapter(Agents, At("~/.opencode.json", "./.opencode.json"), "merge",
                    Hooks("plain", At("~/.opencode/plugins/mneme.ts",
                                      "./.opencode/plugins/mneme.ts")))
Antigravity == Adapter(Agents, HomeOnly("~/.gemini/antigravity/mcp_config.json"), "merge",
                       NoHooks)
GeminiCli == Adapter(At("~/GEMINI.md", "./GEMINI.md"), HomeOnly("~/.gemini/settings.json"),
                     "merge", Hooks("plain", HomeOnly("~/.gemini/commands/mneme.toml")))
Aider == Adapter(At("~/CONVENTIONS.md", "./CONVENTIONS.md"),
                 At("~/.aider.conf.yml", "./.aider.conf.yml"), "append", NoHooks)
Copilot == Adapter(At("~/.config/github-copilot/copilot-instructions.md",
                      "./.github/copilot-instructions.md"),
                   At("~/.config/github-copilot/mcp.json", "./.vscode/mcp.json"), "merge",
                   NoHooks)
FactoryDroid == Adapter(Agents, HomeOnly("~/.factory/mcp.json"), "merge", NoHooks)
Trae == Adapter(Agents, HomeOnly("~/.trae/mcp.json"), "merge", NoHooks)
Kiro == Adapter(At("~/.kiro/steering/mneme.md", "./.kiro/steering/mneme.md"),
                At("~/.kiro/settings/mcp.json", "./.kiro/settings/mcp.json"), "merge",
                Hooks("plain", At("~/.kiro/hooks/mneme.kiro.hook",
                                  "./.kiro/hooks/mneme.kiro.hook")))
Qoder == Adapter(At("~/QODER.md", "./QODER.md"),
                 At("~/.qoder/mcp.json", "./.qoder/mcp.json"), "merge",
                 Hooks("merge", At("~/.qoder/settings.json", "./.qoder/settings.json")))
OpenClaw == Adapter(Agents, At("~/.mcp.json", "./.mcp.json"), "merge", NoHooks)
Hermes == Adapter(Agents, At("~/.hermes/mcp.json", "./.mcp.json"), "merge", NoHooks)
Qwen == Adapter(At("~/QWEN.md", "./QWEN.md"), HomeOnly("~/.qwen/settings.json"), "merge",
                NoHooks)
VsCode == Adapter(Agents, At("~/Code/User/mcp.json", "./.vscode/mcp.json"), "merge", NoHooks)

\* Platform::all_known, the order in which platforms are detected and installed.
AllKnown ==
    <<"claude-code", "codex", "cursor", "windsurf", "zed", "continue", "opencode",
      "antigravity", "gemini-cli", "aider", "copilot", "factory-droid", "trae", "kiro",
      "qoder", "openclaw", "hermes", "qwen", "vscode">>

\* Platform::adapter.
AdapterOf(p) ==
    CASE p = "claude-code" -> ClaudeCode   [] p = "codex" -> Codex
      [] p = "cursor" -> Cursor            [] p = "windsurf" -> Windsurf
      [] p = "zed" -> Zed                  [] p = "continue" -> ContinueDev
      [] p = "opencode" -> OpenCode        [] p = "antigravity" -> Antigravity
      [] p = "gemini-cli" -> GeminiCli     [] p = "aider" -> Aider
      [] p = "copilot" -> Copilot          [] p = "factory-droid" -> FactoryDroid
      [] p = "trae" -> Trae                [] p = "kiro" -> Kiro
      [] p = "qoder" -> Qoder              [] p = "openclaw" -> OpenClaw
      [] p = "hermes" -> Hermes            [] p = "qwen" -> Qwen
      [] p = "vscode" -> VsCode

\* detect_installed: Claude Code and Qoder always, the others when the detect of
\* their adapter finds a directory or file of theirs (present).
DetectInstalled(present) ==
    FlattenSeq([i \in DOMAIN AllKnown |->
                    IF AllKnown[i] \in {"claude-code", "qoder"} \cup present THEN <<AllKnown[i]>> ELSE <<>>])

ManifestPath(p, scope) == AdapterOf(p).manifest[scope]
McpConfigPath(p, scope) == AdapterOf(p).mcp[scope]
HooksPath(p, scope) == AdapterOf(p).hooks.path[scope]
=============================================================================
